---------------------------- MODULE Spec2Model ----------------------------
(***************************************************************************)
(* A state-machine model of the AxAoU server (axaou-server):               *)
(*   - the ingestion CLI (cli/ingest.rs): run_ingest, orchestrate_table_   *)
(*     load, prepare_target_table and the store they act on;               *)
(*   - the asset cache (api.rs, gene_queries.rs): the RwLock-protected     *)
(*     Option<AnalysisAssets> and the handlers that read and write it;     *)
(*   - asset discovery (analysis_assets.rs): discover_all and its seven    *)
(*     per-ancestry workers;                                               *)
(*   - the unified overview merge (phenotype/overview.rs).                 *)
(* Each part has its own specification over the shared variables; the      *)
(* variables of the other parts stay at their initial values.              *)
(***************************************************************************)
EXTENDS Integers, Sequences, FiniteSets, Bags, TLC

VARIABLES
    \* ---- ingestion CLI ----
    store,        \* the column store: table name -> [exists, rows (a bag)]
    ipc,          \* position of the CLI process
    args,         \* IngestArgs + IngestCommand of the running invocation
    queue,        \* configs still to be loaded by this invocation
    cur,          \* the config being loaded
    exit,         \* result of the last finished run_ingest: none | ok | err
    runs,         \* number of CLI invocations started
    stepTrace,    \* (history) steps of the current load, <<step, ok>> each
    attempted,    \* (history) <<table, ok>> of the loads this invocation ended
    preStore,     \* (history) the store when the current load started
    staged,       \* (history) rows the decoder staged in the current load
    prevLoad,     \* (history) the last load that ended before the current one
    \* ---- asset discovery (discover_all) ----
    dpc,          \* position of discover_all: idle | spawning | collecting | done
    workers,      \* ancestry index -> state of its spawned worker task
    awaited,      \* number of join handles discover_all has awaited
    all_assets,   \* the Vec discover_all collects into
    dresult,      \* what discover_all returned: none | ok | err
    \* ---- asset cache and its handlers ----
    cache,        \* the Option<AnalysisAssets> behind the RwLock
    readers,      \* requests holding a read guard
    writers,      \* requests holding the write guard
    req,          \* request -> [kind, refresh, pc, discovered, seen, result]
    nextRun,      \* number of discovery runs started
    finished,     \* (history) the inventories finished discovery runs returned
    \* ---- unified overview (get_phenotype_overview) ----
    opc,          \* position of the handler: idle | genome | exome | group |
                  \* burden | done
    loci_map,     \* HashMap<String, UnifiedLocus>: key -> locus
    gene_burden_map,  \* HashMap<String, Vec<&SignificantBurdenRow>>
    unified_loci, \* the sorted Vec the handler returns
    fetched,      \* number of fetched rows the loops have walked so far
    inputs,       \* (history) <<contig, position>> of the peaks and of the
                  \* burden genes (first row) the loops have walked
    \* ---- peak folding (fetch_peak_annotations) ----
    fpc,          \* position of the fold: idle | folding | done
    frows,        \* (history) the rows the loop has consumed, in order
    peaks,        \* the Vec<Peak> being built
    current_peak, \* Option<Peak>: the peak the loop is filling
    \* ---- coordinate codec (xpos.rs) ----
    xop,          \* the function called last
    xarg,         \* its arguments
    xret,         \* what it returned
    \* ---- handlers and responses ----
    handler,      \* the handler serving the request
    hinput,       \* the request and what the store answers
    hresult,      \* Option<Result<.., AppError>>: what the handler returned
    response,     \* Option<Response>: the HTTP response
    \* ---- asset discovery worker (discover_for_ancestry) ----
    gcs,          \* the phenotype directories of the ancestry in the store
    wpc,          \* position of the worker: idle | listing | streaming | done
    filtered_phenotypes,  \* the phenotypes the stream has still to yield
    in_flight,    \* the phenotypes whose listing is in flight
    results,      \* Vec<Vec<AnalysisAsset>>, in order of completion
    listed,       \* (history) name -> listings started for it in this run
    wfailed,      \* (history) a listing of this run has failed
    wreturn,      \* Option<Result<Vec<AnalysisAsset>, AppError>> of this run
    wruns         \* (history) the earlier runs: [assets (a set), failed]

ingestVars == <<store, ipc, args, queue, cur, exit, runs, stepTrace,
                attempted, preStore, staged, prevLoad>>
discVars == <<dpc, workers, awaited, all_assets, dresult>>
cacheVars == <<cache, readers, writers, req, nextRun, finished>>

overVars == <<opc, loci_map, gene_burden_map, unified_loci, fetched, inputs>>

foldVars == <<fpc, frows, peaks, current_peak>>

\* The server and CLI parts, and the library parts
serverVars == <<ingestVars, discVars, cacheVars, overVars>>
xposVars == <<xop, xarg, xret>>
apiVars == <<handler, hinput, hresult, response>>
workerVars == <<gcs, wpc, filtered_phenotypes, in_flight, results, listed,
                wfailed, wreturn, wruns>>
libVars == <<foldVars, xposVars, apiVars, workerVars>>

vars == <<serverVars, libVars>>

-----------------------------------------------------------------------------
(* Bounds of the model *)

\* CLI invocations in one behaviour
MaxRuns == 2


\* Concurrent requests to the asset handlers in one behaviour
MaxRequests == 2

\* Rows (peaks of both sources and burden rows together) one overview
\* request fetches
MaxFetched == 3

\* Rows the peak annotation query returns
MaxRows == 3

\* Columns of a gene-model row that hold a value, per nested object
MaxNonNull == 2

\* Phenotype directories under the ancestry of a worker
MaxDirs == 3

\* Runs of a worker against one store
MaxWorkerRuns == 2

\* Max concurrent GCS requests per ancestry group (50 in the code; the
\* model keeps it below MaxDirs so that the limit is reached)
MAX_CONCURRENT_REQUESTS == 2

-----------------------------------------------------------------------------
(***************************************************************************)
(*               ASSET DISCOVERY (analysis_assets.rs)                      *)
(***************************************************************************)

\* AncestryGroup::all(), by dir_name
Ancestries == <<"AFR", "AMR", "EAS", "EUR", "MID", "SAS", "META">>

AncestryIndexes == 1..Len(Ancestries)

\* AnalysisAsset (the uri is determined by the other fields)
Asset(anc, id, type, seq) ==
    [ancestry_group |-> anc, analysis_id |-> id, asset_type |-> type,
     sequencing_type |-> seq]

\* The object store: the assets the worker of ancestry i returns when its
\* listings succeed (MID holds no phenotype, META holds two result tables)
WorkerAssets(i) ==
    CASE Ancestries[i] = "MID" -> <<>>
      [] Ancestries[i] = "META" ->
            <<Asset("META", "height", "Gene", "none"),
              Asset("META", "height", "Variant", "Exomes")>>
      [] OTHER -> <<Asset(Ancestries[i], "height", "Gene", "none")>>

\* What awaiting a join handle yields: Ok(Ok(assets)), Ok(Err(e)), Err(panic)
WorkerOutcomes == {"ok", "err", "panicked"}

\* discover_all, one arm of `match handle.await`: what all_assets becomes
Collect(all, status, assets) ==
    IF status = "ok" THEN all \o assets ELSE all

\* (mutant) a worker's error or panic is returned to the caller
AfterAwaitFailFast(status) ==
    IF status = "ok" THEN "collecting" ELSE "failed"

\* discover_all: where the collecting loop goes after a handle was awaited
\* (errors and panics are logged, the loop goes on)
AfterAwait(status) == "collecting"

\* discover_all as a function of the seven workers' outcomes
RECURSIVE CollectUpTo(_, _)
CollectUpTo(statuses, n) ==
    IF n = 0 THEN <<>>
    ELSE Collect(CollectUpTo(statuses, n - 1), statuses[n], WorkerAssets(n))

DiscoverAllResult(statuses) == CollectUpTo(statuses, Len(Ancestries))

DiscoveryIdle ==
    /\ dpc = "idle"
    /\ workers = [i \in AncestryIndexes |-> "unspawned"]
    /\ awaited = 0
    /\ all_assets = <<>>
    /\ dresult = "none"

\* discover_all is called
DiscoveryStart ==
    /\ dpc = "spawning"
    /\ workers = [i \in AncestryIndexes |-> "unspawned"]
    /\ awaited = 0
    /\ all_assets = <<>>
    /\ dresult = "none"

-----------------------------------------------------------------------------
(***************************************************************************)
(*            ASSET CACHE (api.rs, gene_queries.rs, main.rs)               *)
(***************************************************************************)

Requests == 1..MaxRequests

\* The handlers that use the cache
Kinds == {"get_assets", "get_assets_summary", "get_gene_associations",
          "list_gene_associations"}

None == [tag |-> "None"]
Some(inv) == [tag |-> "Some", inv |-> inv]
\* The cache while `*assets_lock = Some(discovered)` is being carried out
Torn == [tag |-> "Torn"]
NotRead == [tag |-> "NotRead"]

NoInventory == [run |-> -1, assets |-> <<>>]

\* The inventory of --assets-file: the output of an earlier discovery
FileInventory ==
    [run |-> 0, assets |-> DiscoverAllResult([i \in AncestryIndexes |-> "ok"])]

IdleRequest == [kind |-> "none", refresh |-> FALSE, pc |-> "idle",
                discovered |-> NoInventory, seen |-> NotRead,
                result |-> "none"]

\* A request that has returned keeps its result only
Returned(result) == [IdleRequest EXCEPT !.pc = "done", !.result = result]

CacheIdle ==
    /\ cache = None
    /\ readers = {}
    /\ writers = {}
    /\ req = [r \in Requests |-> IdleRequest]
    /\ nextRun = 0
    /\ finished = {}

-----------------------------------------------------------------------------
(***************************************************************************)
(*             UNIFIED OVERVIEW (phenotype/overview.rs): data              *)
(***************************************************************************)

\* What the three queries can return.  Positions are genomic coordinates
\* (never negative); two of them lie in the same 1 Mb bin.  A p-value is
\* modelled by its rank.  Sites are <<contig, position>>.
Sites == {<<"chr1", 999999>>, <<"chr1", 1000000>>, <<"chr1", 1999999>>,
          <<"chr2", 1000000>>}
GeneSites == {<<"chr1", 1999999>>, <<"chr2", 1000000>>}
Pvalues == {1, 2}
GeneIds == {"g1", "g2"}
Annotations == {"pLoF", "missenseLC"}

BurdenResult(annotation) == [annotation |-> annotation]

\* GeneInLocus (gene_symbol and distance_kb play no part in the merge)
GenesInLocus ==
    { [gene_id |-> "g1", lof_count |-> 1, missense_count |-> 0,
       burden_results |-> <<BurdenResult("pLoF")>>],
      [gene_id |-> "g2", lof_count |-> 0, missense_count |-> 0,
       burden_results |-> <<>>] }

\* Peak, as fetch_peak_annotations returns it
Peaks ==
    { [contig |-> s[1], position |-> s[2], pvalue |-> v, genes |-> gs] :
        s \in Sites, v \in Pvalues,
        gs \in {<<>>} \cup {<<g>> : g \in GenesInLocus} }

SignificantBurdenRows ==
    { [gene_id |-> g, contig |-> s[1], gene_start_position |-> s[2],
       annotation |-> a] :
        g \in GeneIds, s \in GeneSites, a \in Annotations }

\* i32 division: the quotient is truncated towards zero
TruncDiv(a, b) == IF a >= 0 THEN a \div b ELSE -((-a) \div b)

BinSize == 1000000

\* A variant of locus_key that formats the position itself
LocusKeyUnbinned(contig, position) == contig \o "-" \o ToString(position)

\* locus_key: format!("{}-{}", contig, position / 1_000_000)
LocusKey(contig, position) ==
    contig \o "-" \o ToString(TruncDiv(position, BinSize))

\* HashMap::insert: the value of an existing key is replaced
Insert(m, key, value) ==
    [k \in DOMAIN m \cup {key} |-> IF k = key THEN value ELSE m[k]]

EmptyMap == [k \in {} |-> None]

CodingHits(g) ==
    IF g.lof_count > 0 \/ g.missense_count > 0
    THEN Some([lof |-> g.lof_count, missense |-> g.missense_count])
    ELSE None

\* The UnifiedGene literal of peak_to_unified_locus and of merge_gene
UnifiedGene(g, source) ==
    [gene_id |-> g.gene_id,
     genome_coding_hits |-> IF source = "genome" THEN CodingHits(g) ELSE None,
     exome_coding_hits |-> IF source = "exome" THEN CodingHits(g) ELSE None,
     burden_results |-> g.burden_results]

peak_to_unified_locus(peak, source) ==
    [contig |-> peak.contig,
     position |-> peak.position,
     pvalue_genome |-> IF source = "genome" THEN Some(peak.pvalue) ELSE None,
     pvalue_exome |-> IF source = "exome" THEN Some(peak.pvalue) ELSE None,
     genes |-> [i \in 1..Len(peak.genes) |-> UnifiedGene(peak.genes[i], source)]]

\* iter().position(|g| g.gene_id == id): index of the first match, 0 if none
FindGene(genes, id) ==
    IF \E i \in 1..Len(genes) : genes[i].gene_id = id
    THEN CHOOSE i \in 1..Len(genes) :
            /\ genes[i].gene_id = id
            /\ \A j \in 1..(i - 1) : genes[j].gene_id # id
    ELSE 0

\* The loop that pushes each new result whose annotation is not there yet
RECURSIVE MergeBurdenResults(_, _)
MergeBurdenResults(existing, new) ==
    IF new = <<>> THEN existing
    ELSE MergeBurdenResults(
            IF \E i \in 1..Len(existing) :
                  existing[i].annotation = Head(new).annotation
            THEN existing
            ELSE Append(existing, Head(new)),
            Tail(new))

merge_gene(existing_genes, new_gene, source) ==
    LET i == FindGene(existing_genes, new_gene.gene_id)
        hits == CodingHits(new_gene)
    IN  IF i # 0
        THEN [existing_genes EXCEPT
                ![i] = [@ EXCEPT
                   !.genome_coding_hits =
                       IF source = "genome" /\ hits # None THEN hits ELSE @,
                   !.exome_coding_hits =
                       IF source = "exome" /\ hits # None THEN hits ELSE @,
                   !.burden_results =
                       MergeBurdenResults(@, new_gene.burden_results)]]
        ELSE Append(existing_genes, UnifiedGene(new_gene, source))

\* for gene in &peak.genes { merge_gene(&mut existing.genes, gene, source) }
RECURSIVE MergeGenes(_, _, _)
MergeGenes(existing_genes, new_genes, source) ==
    IF new_genes = <<>> THEN existing_genes
    ELSE MergeGenes(merge_gene(existing_genes, Head(new_genes), source),
                    Tail(new_genes), source)

\* One iteration of the exome loop
MergeExome(m, peak) ==
    LET key == LocusKey(peak.contig, peak.position)
    IN  IF key \in DOMAIN m
        THEN Insert(m, key,
                [m[key] EXCEPT
                   !.pvalue_exome =
                       IF @ = None \/ @.inv > peak.pvalue
                       THEN Some(peak.pvalue) ELSE @,
                   !.genes = MergeGenes(@, peak.genes, "exome")])
        ELSE Insert(m, key, peak_to_unified_locus(peak, "exome"))

\* gene_burden_map.entry(row.gene_id.clone()).or_default().push(row)
GroupRow(m, row) ==
    Insert(m, row.gene_id,
           IF row.gene_id \in DOMAIN m THEN Append(m[row.gene_id], row)
           ELSE <<row>>)

\* The body of `for (gene_id, rows) in gene_burden_map`
MergeBurden(m, gene_id, rows) ==
    LET first_row == rows[1]
        key == LocusKey(first_row.contig, first_row.gene_start_position)
        burden_results ==
            [i \in 1..Len(rows) |-> BurdenResult(rows[i].annotation)]
        new_gene == [gene_id |-> gene_id,
                     genome_coding_hits |-> None,
                     exome_coding_hits |-> None,
                     burden_results |-> burden_results]
    IN  IF key \in DOMAIN m
        THEN LET i == FindGene(m[key].genes, gene_id)
             IN  Insert(m, key,
                    [m[key] EXCEPT
                       !.genes =
                          IF i # 0
                          THEN [@ EXCEPT ![i].burden_results =
                                   MergeBurdenResults(@, burden_results)]
                          ELSE Append(@, new_gene)])
        ELSE Insert(m, key,
                [contig |-> first_row.contig,
                 position |-> first_row.gene_start_position,
                 pvalue_genome |-> None,
                 pvalue_exome |-> None,
                 genes |-> <<new_gene>>])

\* f64::MAX, above every p-value
F64Max == 1000

Min(a, b) == IF a <= b THEN a ELSE b

UnwrapOr(option, default) == IF option = None THEN default ELSE option.inv

\* (variant) the sort key looks at the genome p-value only
BestGenomeOnly(locus) == UnwrapOr(locus.pvalue_genome, F64Max)

\* The sort key: pvalue_genome.unwrap_or(MAX).min(pvalue_exome.unwrap_or(MAX))
Best(locus) ==
    Min(UnwrapOr(locus.pvalue_genome, F64Max),
        UnwrapOr(locus.pvalue_exome, F64Max))

\* loci_map.into_values().collect() followed by the stable sort_by: the
\* values in any order of iteration, sorted by Best
SortedValues(m) ==
    LET n == Cardinality(DOMAIN m)
        orders == { o \in [1..n -> DOMAIN m] :
                      \A i, j \in 1..n : i # j => o[i] # o[j] }
    IN  { [i \in 1..n |-> m[o[i]]] : o \in
            { o \in orders :
                \A i, j \in 1..n : i < j => Best(m[o[i]]) <= Best(m[o[j]]) } }

\* No overview request is being served
OverviewIdle ==
    /\ opc = "idle"
    /\ loci_map = EmptyMap
    /\ gene_burden_map = EmptyMap
    /\ unified_loci = <<>>
    /\ fetched = 0
    /\ inputs = {}

\* The handler has been called: let mut loci_map = HashMap::new()
OverviewStart ==
    /\ opc = "genome"
    /\ loci_map = EmptyMap
    /\ gene_burden_map = EmptyMap
    /\ unified_loci = <<>>
    /\ fetched = 0
    /\ inputs = {}

-----------------------------------------------------------------------------
(***************************************************************************)
(*       PEAK FOLDING (phenotype/manhattan.rs): fetch_peak_annotations     *)
(***************************************************************************)

\* round(lg.distance_to_peak / 1000, 1): the distance from the peak to the
\* gene, which the peak and the gene determine
DistanceKb(contig, gene_id) ==
    IF gene_id = "g1" THEN (IF contig = "chr1" THEN 10 ELSE 20)
    ELSE (IF contig = "chr1" THEN 30 ELSE 40)

\* PeakGeneRow: what the peak annotation query returns, one gene per row
PeakGeneRows ==
    { [contig |-> c, peak_position |-> p, peak_pvalue |-> v, gene_id |-> g,
       distance_kb |-> DistanceKb(c, g)] :
        c \in {"chr1", "chr2"}, p \in {100, 500}, v \in Pvalues,
        g \in GeneIds }

\* The GeneInLocus literal: the gene columns of the row, copied
GeneOfRow(row) == [gene_id |-> row.gene_id]

\* (variant) the match guard compares the contig only
SamePeakByContig(peak, row) == peak # None /\ peak.inv.contig = row.contig

\* The guard `Some(peak) if peak.contig == key.0 && peak.position == key.1`
SamePeak(peak, row) ==
    /\ peak # None
    /\ peak.inv.contig = row.contig
    /\ peak.inv.position = row.peak_position

\* The first arm: peak.genes.push(..)
PushGene(peak, row) ==
    Some([peak.inv EXCEPT !.genes = Append(@, GeneOfRow(row))])

\* The second arm: current_peak = Some(Peak { .. })
NewPeak(row) ==
    Some([contig |-> row.contig, position |-> row.peak_position,
          pvalue |-> row.peak_pvalue, genes |-> <<GeneOfRow(row)>>])

\* if let Some(peak) = current_peak.take() { peaks.push(peak) }
PushPeak(ps, peak) == IF peak = None THEN ps ELSE Append(ps, peak.inv)

FoldIdle ==
    /\ fpc = "idle"
    /\ frows = <<>>
    /\ peaks = <<>>
    /\ current_peak = None

\* The query has returned: let mut peaks = Vec::new(); current_peak = None
FoldStart ==
    /\ fpc = "folding"
    /\ frows = <<>>
    /\ peaks = <<>>
    /\ current_peak = None

-----------------------------------------------------------------------------
(***************************************************************************)
(*             COORDINATE CODEC (clickhouse/xpos.rs, models.rs)            *)
(* A string is the sequence of its characters.  A 64-bit value v is the    *)
(* pair <<hi, lo>> with v = hi * 1_000_000_000 + lo and 0 <= lo <          *)
(* 1_000_000_000, so that sums and comparisons are those of the integers   *)
(* (a u32 position is such a pair with hi in 0..4).                        *)
(***************************************************************************)

DigitChars == <<"0", "1", "2", "3", "4", "5", "6", "7", "8", "9">>
LowerChars == <<"a", "b", "c", "d", "e", "f", "g", "h", "i", "j", "k", "l",
                "m", "n", "o", "p", "q", "r", "s", "t", "u", "v", "w", "x",
                "y", "z">>
UpperChars == <<"A", "B", "C", "D", "E", "F", "G", "H", "I", "J", "K", "L",
                "M", "N", "O", "P", "Q", "R", "S", "T", "U", "V", "W", "X",
                "Y", "Z">>

IsDigit(c) == \E d \in 1..10 : DigitChars[d] = c
DigitValue(c) == (CHOOSE d \in 1..10 : DigitChars[d] = c) - 1

\* str::to_uppercase on ASCII text
ToUppercase(s) ==
    [i \in 1..Len(s) |->
        IF \E k \in 1..26 : LowerChars[k] = s[i]
        THEN UpperChars[CHOOSE k \in 1..26 : LowerChars[k] = s[i]]
        ELSE s[i]]

StartsWith(s, prefix) ==
    Len(s) >= Len(prefix) /\ SubSeq(s, 1, Len(prefix)) = prefix

\* str::trim_start_matches: the prefix is removed as often as it occurs
RECURSIVE TrimStartMatches(_, _)
TrimStartMatches(s, prefix) ==
    IF StartsWith(s, prefix)
    THEN TrimStartMatches(SubSeq(s, Len(prefix) + 1, Len(s)), prefix)
    ELSE s

\* str::split(sep).collect(): the parts between the separators (always at
\* least one part; parts may be empty)
RECURSIVE Split(_, _)
Split(s, sep) ==
    IF \E i \in 1..Len(s) : s[i] = sep
    THEN LET i == CHOOSE k \in 1..Len(s) :
                     s[k] = sep /\ \A j \in 1..(k - 1) : s[j] # sep
         IN  <<SubSeq(s, 1, i - 1)>> \o Split(SubSeq(s, i + 1, Len(s)), sep)
    ELSE <<s>>

Ok(v) == [tag |-> "Ok", value |-> v]
Err(kind) == [tag |-> "Err", kind |-> kind]

AllDigits(s) == s # <<>> /\ \A i \in 1..Len(s) : IsDigit(s[i])

RECURSIVE StripLeadingZeros(_)
StripLeadingZeros(s) ==
    IF s # <<>> /\ s[1] = "0" THEN StripLeadingZeros(Tail(s)) ELSE s

\* The value of at most nine decimal digits
RECURSIVE DecimalValue(_)
DecimalValue(s) ==
    IF s = <<>> THEN 0
    ELSE DecimalValue(SubSeq(s, 1, Len(s) - 1)) * 10 + DigitValue(s[Len(s)])

\* u32::MAX = 4_294_967_295
U32Max == <<4, 294967295>>

\* v <= w for values <<hi, lo>>
LessEq(v, w) == v[1] < w[1] \/ (v[1] = w[1] /\ v[2] <= w[2])

\* str::parse::<u32>(): an optional '+', then decimal digits of a value up
\* to u32::MAX
ParseU32(s) ==
    LET body == IF s # <<>> /\ s[1] = "+" THEN Tail(s) ELSE s
        sig == StripLeadingZeros(body)
    IN  IF ~AllDigits(body) THEN Err("ParseIntError")
        ELSE IF Len(sig) <= 9 THEN Ok(<<0, DecimalValue(sig)>>)
        ELSE IF Len(sig) = 10
                /\ LessEq(<<DigitValue(sig[1]), DecimalValue(Tail(sig))>>,
                          U32Max)
             THEN Ok(<<DigitValue(sig[1]), DecimalValue(Tail(sig))>>)
             ELSE Err("ParseIntError")

\* str::parse::<i64>(): an optional sign, then decimal digits (the contigs
\* of the model have at most nine significant digits)
ParseI64(s) ==
    LET signed == s # <<>> /\ s[1] \in {"+", "-"}
        body == IF signed THEN Tail(s) ELSE s
        sig == StripLeadingZeros(body)
    IN  IF ~AllDigits(body) \/ Len(sig) > 9 THEN Err("ParseIntError")
        ELSE Ok(IF signed /\ s[1] = "-" THEN -DecimalValue(sig)
                ELSE DecimalValue(sig))

\* The zero of the 64-bit values
Zero == <<0, 0>>

\* (variant) Y is given the number of X
ContigNumYAsX(contig) ==
    LET contig_normalized == TrimStartMatches(contig, <<"c", "h", "r">>)
        upper == ToUppercase(contig_normalized)
        parsed == ParseI64(contig_normalized)
    IN  IF upper \in {<<"X">>, <<"Y">>} THEN 23
        ELSE IF upper \in {<<"M">>, <<"M", "T">>} THEN 25
        ELSE IF parsed.tag = "Ok" THEN parsed.value ELSE 0

\* compute_xpos: the contig_num of a contig string
ContigNum(contig) ==
    LET contig_normalized == TrimStartMatches(contig, <<"c", "h", "r">>)
        upper == ToUppercase(contig_normalized)
        parsed == ParseI64(contig_normalized)
    IN  IF upper = <<"X">> THEN 23
        ELSE IF upper = <<"Y">> THEN 24
        ELSE IF upper \in {<<"M">>, <<"M", "T">>} THEN 25
        ELSE IF parsed.tag = "Ok" THEN parsed.value ELSE 0

\* compute_xpos: contig_num * 1_000_000_000 + position as i64
compute_xpos(contig, position) ==
    IF ContigNum(contig) = 0 THEN Zero
    ELSE <<ContigNum(contig) + position[1], position[2]>>

\* parse_variant_id
parse_variant_id(variant_id) ==
    LET parts == Split(variant_id, "-")
        pos == ParseU32(parts[2])
        xpos == compute_xpos(parts[1], pos.value)
    IN  IF Len(parts) # 4 THEN Err("InvalidInterval")
        ELSE IF pos.tag = "Err" THEN Err("InvalidInterval")
        ELSE IF xpos = Zero THEN Err("InvalidInterval")
        ELSE Ok(<<xpos, parts[3], parts[4]>>)

\* parse_interval_to_xpos
parse_interval_to_xpos(interval) ==
    LET parts == Split(interval, ":")
        range_parts == Split(parts[2], "-")
        start == ParseU32(range_parts[1])
        end == ParseU32(range_parts[2])
        xpos_start == compute_xpos(parts[1], start.value)
        xpos_end == compute_xpos(parts[1], end.value)
    IN  IF Len(parts) # 2 THEN Err("InvalidInterval")
        ELSE IF Len(range_parts) # 2 THEN Err("InvalidInterval")
        ELSE IF start.tag = "Err" THEN Err("InvalidInterval")
        ELSE IF end.tag = "Err" THEN Err("InvalidInterval")
        ELSE IF xpos_start = Zero \/ xpos_end = Zero
             THEN Err("InvalidInterval")
             ELSE Ok(<<xpos_start, xpos_end>>)

\* The decimal digits of a natural number
RECURSIVE DecimalString(_)
DecimalString(n) ==
    IF n < 10 THEN <<DigitChars[n + 1]>>
    ELSE DecimalString(n \div 10) \o <<DigitChars[(n % 10) + 1]>>

\* reverse_xpos, the inverse of compute_xpos: the names the contig of a
\* contig number can be returned as (no chr prefix; the mitochondrial contig
\* has the two names M and MT)
ContigNames(contig_num) ==
    IF contig_num = 23 THEN {<<"X">>}
    ELSE IF contig_num = 24 THEN {<<"Y">>}
    ELSE IF contig_num = 25 THEN {<<"M">>, <<"M", "T">>}
    ELSE {DecimalString(contig_num)}

\* reverse_xpos: the position, xpos modulo 1_000_000_000
PositionOf(xpos) == <<0, xpos[2]>>

\* The contigs of the reference: 1..22, X, Y, M, MT
ContigNumbers == 1..22
ValidContigNames ==
    {DecimalString(n) : n \in ContigNumbers}
       \cup {<<"X">>, <<"Y">>, <<"M">>, <<"M", "T">>}

\* Contig strings: the valid ones with and without the chr prefix, and
\* others
ValidContigs ==
    ValidContigNames \cup {<<"c", "h", "r">> \o c : c \in ValidContigNames}
OtherContigs ==
    {<<"0">>, <<"2", "6">>, <<"9", "9">>, <<"c", "h", "r", "Z">>,
     <<"-", "1">>, <<>>, <<"c", "h", "r", "c", "h", "r", "1">>, <<"x">>,
     <<"c", "h", "r", "m", "t">>, <<"C", "H", "R", "1">>}
ContigInputs == ValidContigs \cup OtherContigs

\* u32 positions
PositionInputs ==
    {<<0, 0>>, <<0, 1>>, <<0, 12345>>, <<0, 999999999>>, <<1, 0>>,
     <<1, 500000000>>, <<4, 294967295>>}

\* Texts given where a position is expected
PositionTexts ==
    {<<"0">>, <<"1", "0", "0">>, <<"2", "0", "0">>, <<"1", "2", "3", "4", "5">>,
     <<"9", "9", "9", "9", "9", "9", "9", "9", "9">>, <<"1", "0", "0", "0", "0", "0", "0", "0", "0", "0">>, <<"4", "2", "9", "4", "9", "6", "7", "2", "9", "5">>, <<"4", "2", "9", "4", "9", "6", "7", "2", "9", "6">>,
     <<"a", "b", "c">>, <<>>, <<"+", "5">>}

\* Contigs of the parsed texts
ParsedContigs ==
    {<<"c", "h", "r", "1">>, <<"1">>, <<"2", "2">>, <<"c", "h", "r", "X">>,
     <<"M", "T">>, <<"2">>, <<"2", "6">>, <<"-", "1">>,
     <<"c", "h", "r", "Z">>, <<>>}

AlleleTexts ==
    {<<"A">>, <<"A", "C", "G", "T">>, <<"T">>, <<>>}

RECURSIVE Join(_, _)
Join(parts, sep) ==
    IF Len(parts) = 1 THEN parts[1]
    ELSE parts[1] \o <<sep>> \o Join(Tail(parts), sep)

\* Variant ids: contig-pos-ref-alt, and texts of two, three and five fields
VariantIdInputs ==
    {Join(<<c, p, r, a>>, "-") :
        c \in ParsedContigs, p \in PositionTexts,
        r \in AlleleTexts, a \in AlleleTexts}
    \cup {Join(<<c, p>>, "-") : c \in ParsedContigs, p \in PositionTexts}
    \cup {Join(<<c, p, <<"A">>>>, "-") :
             c \in ParsedContigs, p \in PositionTexts}
    \cup {Join(<<c, p, <<"A">>, <<"T">>, <<"G">>>>, "-") :
             c \in ParsedContigs, p \in PositionTexts}

\* Intervals: contig:start-end, and texts without or with more separators
IntervalInputs ==
    {c \o <<":">> \o Join(<<b, e>>, "-") :
        c \in ParsedContigs, b \in PositionTexts, e \in PositionTexts}
    \cup {Join(<<c, b, e>>, "-") :
             c \in ParsedContigs, b \in PositionTexts, e \in {<<"2", "0", "0">>}}
    \cup {c \o <<":">> \o b : c \in ParsedContigs, b \in PositionTexts}
    \cup {c \o <<":">> \o Join(<<b, b, b>>, "-") :
             c \in ParsedContigs, b \in PositionTexts}
    \cup {c \o <<":">> \o c \o <<":">> \o Join(<<b, b>>, "-") :
             c \in ParsedContigs, b \in PositionTexts}

\* Contigs of the rows of significant_variants
RowContigs ==
    {<<"1">>, <<"c", "h", "r", "1">>, <<"2">>, <<"2", "2">>, <<"X">>,
     <<"M", "T">>}

\* (variant) the end of the range is excluded
InRangeExclusiveEnd(xpos, xpos_start, xpos_end) ==
    LessEq(xpos_start, xpos) /\ LessEq(xpos, xpos_end) /\ xpos # xpos_end

\* WHERE xpos >= ? AND xpos <= ?
InRange(xpos, xpos_start, xpos_end) ==
    LessEq(xpos_start, xpos) /\ LessEq(xpos, xpos_end)

NoCall == [contig |-> <<>>, position |-> Zero, text |-> <<>>, xpos |-> Zero]

XposIdle ==
    /\ xop = "none"
    /\ xarg = NoCall
    /\ xret = Ok(Zero)

-----------------------------------------------------------------------------
(***************************************************************************)
(*   HANDLERS AND RESPONSES (error.rs, variants/annotations.rs,            *)
(*   phenotype/loci.rs, clickhouse/models.rs)                              *)
(***************************************************************************)

\* enum AppError: a kind and the message it carries
ErrorKinds ==
    {"HailDecoder", "DataTransformError", "JoinError", "InvalidInterval",
     "NotFound"}
AppError(kind, message) == [kind |-> kind, message |-> message]

\* Err(e) of a handler
Fail(error) == [tag |-> "Err", error |-> error]

\* #[error("..: {0}")]: the Display text of an error
to_string(error) ==
    (CASE error.kind = "HailDecoder" -> "Hail Decoder Error: "
       [] error.kind = "DataTransformError" -> "Failed to transform data: "
       [] error.kind = "JoinError" -> "Internal task error: "
       [] error.kind = "InvalidInterval" -> "Invalid interval: "
       [] error.kind = "NotFound" -> "Not found: ") \o error.message

\* (variant) NotFound falls into the arm of the server errors
StatusOfNotFoundAsServerError(error) ==
    IF error.kind = "InvalidInterval" THEN 400 ELSE 500

\* AppError::into_response: the match on the kind
StatusOf(error) ==
    IF error.kind \in {"HailDecoder", "DataTransformError"} THEN 500
    ELSE IF error.kind = "JoinError" THEN 500
    ELSE IF error.kind = "InvalidInterval" THEN 400
    ELSE 404

\* AppError::into_response
into_response(error) ==
    [status |-> StatusOf(error), body |-> [error |-> to_string(error)]]

\* Json(value) of a successful handler
JsonResponse(value) == [status |-> 200, body |-> value]

\* The store's answer to a query: a failure or the rows
QueryFailed == [tag |-> "QueryError"]

\* SignificantVariantRow::to_api
to_api(row) == [variant_id |-> row.variant_id, pvalue |-> row.pvalue]

\* LookupResult::new
LookupResult(data) == [data |-> data, count |-> Len(data)]

\* What fetch_optional::<SignificantVariantRow> can return for a variant id
FetchOptional(variant_id) ==
    {QueryFailed, None, Some([variant_id |-> variant_id, pvalue |-> 1])}

\* get_association_by_variant
get_association_by_variant(variant_id, fetched_row) ==
    LET parsed == parse_variant_id(variant_id)
        api_rows == IF fetched_row = None THEN <<>>
                    ELSE <<to_api(fetched_row.inv)>>
    IN  IF parsed.tag = "Err"
        THEN Fail(AppError(parsed.kind, "Invalid variant ID"))
        ELSE IF fetched_row = QueryFailed
        THEN Fail(AppError("DataTransformError", "ClickHouse query error"))
        ELSE Ok(LookupResult(api_rows))

\* LocusRow
LocusIds == {"locus_1", "locus_2"}
PlotUris == {"", "gs://plots/locus.png"}
LocusRow(locus_id, plot_gcs_uri) ==
    [locus_id |-> locus_id, contig |-> "chr1", start |-> 100, stop |-> 200,
     plot_gcs_uri |-> plot_gcs_uri]

\* What fetch_all::<LocusRow> can return under LIMIT 1
FetchAll(locus_id) ==
    {QueryFailed, Ok(<<>>)}
       \cup {Ok(<<LocusRow(locus_id, uri)>>) : uri \in PlotUris}

\* get_locus_plot
get_locus_plot(locus_id, rows) ==
    IF rows = QueryFailed
    THEN Fail(AppError("DataTransformError", "ClickHouse query error"))
    ELSE IF rows.value = <<>>
    THEN Fail(AppError("NotFound", "Locus " \o locus_id \o " not found"))
    ELSE IF rows.value[1].plot_gcs_uri = ""
    THEN Fail(AppError("NotFound", "No plot available for locus " \o locus_id))
    ELSE Ok([image_url |-> "/api/phenotype/loci/" \o locus_id \o "/plot/image",
             locus_start |-> rows.value[1].start,
             locus_stop |-> rows.value[1].stop,
             contig |-> rows.value[1].contig])

\* Messages other handlers fail with
Messages == {"", "m1", "m2"}

\* GeneModelRow: the nullable flattened gnomad_constraint columns
GnomadColumns ==
    {"gnomad_gene", "gnomad_gene_id", "gnomad_transcript",
     "gnomad_mane_select", "gnomad_pli", "gnomad_lof_z", "gnomad_mis_z",
     "gnomad_syn_z", "gnomad_oe_lof", "gnomad_oe_lof_lower",
     "gnomad_oe_lof_upper", "gnomad_oe_mis", "gnomad_oe_mis_lower",
     "gnomad_oe_mis_upper", "gnomad_oe_syn", "gnomad_oe_syn_lower",
     "gnomad_oe_syn_upper", "gnomad_exp_lof", "gnomad_exp_mis",
     "gnomad_exp_syn", "gnomad_obs_lof", "gnomad_obs_mis", "gnomad_obs_syn"}

\* GeneModelRow: the flattened mane_select_transcript columns
ManeColumns ==
    {"mane_ensembl_id", "mane_ensembl_version", "mane_refseq_id",
     "mane_refseq_version", "mane_matched_gene_version"}

\* The subsets of S of at most k elements
RECURSIVE SubsetsUpTo(_, _)
SubsetsUpTo(S, k) ==
    IF k = 0 THEN {{}}
    ELSE LET smaller == SubsetsUpTo(S, k - 1)
         IN  smaller \cup {T \cup {x} : T \in smaller, x \in S}

\* Gene-model rows: the columns of `present` hold a value, the others NULL
GeneModelRow(gnomad_present, mane_present) ==
    [gnomad |-> [c \in GnomadColumns |->
                    IF c \in gnomad_present THEN Some(1) ELSE None],
     mane |-> [c \in ManeColumns |->
                    IF c \in mane_present THEN Some(1) ELSE None]]
GeneModelRows ==
    {GeneModelRow(g, m) : g \in SubsetsUpTo(GnomadColumns, MaxNonNull),
                          m \in SubsetsUpTo(ManeColumns, MaxNonNull)}

\* GeneModelRow::gnomad_to_struct
gnomad_to_struct(row) ==
    IF row.gnomad["gnomad_gene"] = None /\ row.gnomad["gnomad_pli"] = None
    THEN None
    ELSE Some([c \in GnomadColumns |-> UnwrapOr(row.gnomad[c], 0)])

\* GeneModelRow::mane_to_struct
mane_to_struct(row) ==
    IF row.mane["mane_ensembl_id"] = None
    THEN None
    ELSE Some([c \in ManeColumns |-> UnwrapOr(row.mane[c], 0)])

\* GeneModelRow::to_api_model
to_api_model(row) ==
    [gnomad_constraint |-> gnomad_to_struct(row),
     mane_select_transcript |-> mane_to_struct(row)]

NoRequest == [id |-> "", fetched |-> None]

ApiIdle ==
    /\ handler = "none"
    /\ hinput = NoRequest
    /\ hresult = None
    /\ response = None

-----------------------------------------------------------------------------
(***************************************************************************)
(*   ASSET DISCOVERY WORKER (analysis_assets.rs, data.rs)                  *)
(* One AssetDiscoveryWorker lists the phenotype directories of its         *)
(* ancestry and then the .ht directories of each phenotype that survives   *)
(* the filter, through buffer_unordered.  Directory names and analysis ids *)
(* are sequences of characters.                                            *)
(***************************************************************************)

\* "phenotype_"
PhenotypePrefix == <<"p", "h", "e", "n", "o", "t", "y", "p", "e", "_">>

\* str::strip_prefix
strip_prefix(s, prefix) ==
    IF StartsWith(s, prefix) THEN Some(SubSeq(s, Len(prefix) + 1, Len(s)))
    ELSE None

\* data.rs normalize_analysis_id (metadata loader)
normalize_analysis_id(raw_id) ==
    IF StartsWith(raw_id, PhenotypePrefix)
    THEN strip_prefix(raw_id, PhenotypePrefix).inv
    ELSE raw_id

\* (variant) every leading phenotype_ is removed
NormalizeRepeatedly(raw_id) == TrimStartMatches(raw_id, PhenotypePrefix)

\* analysis_assets.rs normalize_analysis_id (asset discovery)
assets_normalize_analysis_id(raw_id) ==
    UnwrapOr(strip_prefix(raw_id, PhenotypePrefix), raw_id)

\* Names of phenotype directories under an ancestry, in the order the
\* store lists them: height, phenotype_, phenotype_S01AA,
\* phenotype_height, phenotype_phenotype_x, unknown
SortedDirNames ==
    <<<<"h", "e", "i", "g", "h", "t">>,
      <<"p", "h", "e", "n", "o", "t", "y", "p", "e", "_">>,
      <<"p", "h", "e", "n", "o", "t", "y", "p", "e", "_", "S", "0", "1", "A", "A">>,
      <<"p", "h", "e", "n", "o", "t", "y", "p", "e", "_", "h", "e", "i", "g", "h", "t">>,
      <<"p", "h", "e", "n", "o", "t", "y", "p", "e", "_", "p", "h", "e", "n", "o", "t", "y", "p", "e", "_", "x">>,
      <<"u", "n", "k", "n", "o", "w", "n">>>>
DirNames == {SortedDirNames[i] : i \in 1..Len(SortedDirNames)}

\* phenoname of the metadata rows: phenotype_height, S01AA,
\* phenotype_phenotype_x, phenotype_
MetadataPhenonames ==
    {<<"p", "h", "e", "n", "o", "t", "y", "p", "e", "_", "h", "e", "i", "g", "h", "t">>,
     <<"S", "0", "1", "A", "A">>,
     <<"p", "h", "e", "n", "o", "t", "y", "p", "e", "_", "p", "h", "e", "n", "o", "t", "y", "p", "e", "_", "x">>,
     <<"p", "h", "e", "n", "o", "t", "y", "p", "e", "_">>}

\* analysis_id of the loaded metadata
MetadataIds == {normalize_analysis_id(raw) : raw \in MetadataPhenonames}

\* get_valid_phenotypes: the normalized and the prefixed form of every id
get_valid_phenotypes ==
    MetadataIds \cup {PhenotypePrefix \o id : id \in MetadataIds}

\* ASSET_FILES
ASSET_FILES ==
    <<<<"exome_variant_results.ht", "Variant", "Exomes">>,
      <<"genome_variant_results.ht", "Variant", "Genomes">>,
      <<"exome_variant_results_approx_cdf_expected_p.ht", "VariantExpP",
        "Exomes">>,
      <<"genome_variant_results_approx_cdf_expected_p.ht", "VariantExpP",
        "Genomes">>,
      <<"gene_results.ht", "Gene", "none">>>>

\* match_asset_file: the first pattern equal to the filename
match_asset_file(filename) ==
    IF \E i \in 1..Len(ASSET_FILES) : ASSET_FILES[i][1] = filename
    THEN LET i == CHOOSE k \in 1..Len(ASSET_FILES) :
                     /\ ASSET_FILES[k][1] = filename
                     /\ \A j \in 1..(k - 1) : ASSET_FILES[j][1] # filename
         IN  Some(<<ASSET_FILES[i][2], ASSET_FILES[i][3]>>)
    ELSE None

\* The ancestry of the worker
WorkerAncestry == "EUR"

\* What the listing of a phenotype directory returns (common_prefixes)
HtDirs(phenotype_name) ==
    IF Len(phenotype_name) = 6
    THEN <<"gene_results.ht", "exome_variant_results.ht">>
    ELSE IF Len(phenotype_name) = 16
    THEN <<"genome_variant_results.ht", "notes.txt",
           "genome_variant_results_approx_cdf_expected_p.ht">>
    ELSE IF Len(phenotype_name) = 10
    THEN <<"exome_variant_results_approx_cdf_expected_p.ht">>
    ELSE <<"gene_results.ht", "exome_variant_results.ht.bak">>

\* The directories of the index set, in listing order
RECURSIVE Listing(_, _)
Listing(indexes, from) ==
    IF from > Len(SortedDirNames) THEN <<>>
    ELSE (IF from \in indexes THEN <<SortedDirNames[from]>> ELSE <<>>)
            \o Listing(indexes, from + 1)

\* The stores: at most MaxDirs phenotype directories under the ancestry
Stores ==
    {Listing(indexes, 1) :
        indexes \in {S \in SUBSET (1..Len(SortedDirNames)) :
                        Cardinality(S) <= MaxDirs}}

\* filter_map of the phenotype directories: (path and name, analysis_id)
RECURSIVE FilterPhenotypes(_, _)
FilterPhenotypes(phenotype_dirs, valid_phenotypes) ==
    IF phenotype_dirs = <<>> THEN <<>>
    ELSE LET phenotype_name == Head(phenotype_dirs)
             analysis_id == assets_normalize_analysis_id(phenotype_name)
             rest == FilterPhenotypes(Tail(phenotype_dirs), valid_phenotypes)
         IN  IF phenotype_name = <<>> THEN rest
             ELSE IF analysis_id \notin valid_phenotypes
                     /\ phenotype_name \notin valid_phenotypes
             THEN rest
             ELSE <<[phenotype_name |-> phenotype_name,
                     analysis_id |-> analysis_id]>> \o rest

\* The assets of one phenotype listing, in listing order
RECURSIVE AssetsOf(_, _)
AssetsOf(item, ht_dirs) ==
    IF ht_dirs = <<>> THEN <<>>
    ELSE LET matched == match_asset_file(Head(ht_dirs))
             rest == AssetsOf(item, Tail(ht_dirs))
         IN  IF matched = None THEN rest
             ELSE <<[ancestry_group |-> WorkerAncestry,
                     analysis_id |-> item.analysis_id,
                     uri |-> <<"gs://aou_results", WorkerAncestry,
                               item.phenotype_name, Head(ht_dirs)>>,
                     asset_type |-> matched.inv[1],
                     sequencing_type |-> matched.inv[2]]>> \o rest

\* (variant) only the listing that completed first is kept
FlattenFirst(vecs) == IF vecs = <<>> THEN <<>> ELSE vecs[1]

\* results.into_iter().flatten().collect()
RECURSIVE Flatten(_)
Flatten(vecs) ==
    IF vecs = <<>> THEN <<>> ELSE Head(vecs) \o Flatten(Tail(vecs))

\* (variant) the stream is polled whatever is in flight
CanPollUnbounded(count) == TRUE

\* buffer_unordered(MAX_CONCURRENT_REQUESTS): the stream is polled for the
\* next listing only while fewer than the limit are in flight
CanPoll(count) == count < MAX_CONCURRENT_REQUESTS

NoListed == [name \in DirNames |-> 0]

WorkerIdle ==
    /\ gcs = <<>>
    /\ wpc = "idle"
    /\ filtered_phenotypes = <<>>
    /\ in_flight = {}
    /\ results = <<>>
    /\ listed = NoListed
    /\ wfailed = FALSE
    /\ wreturn = None
    /\ wruns = <<>>

\* A worker over some store, before its first run
WorkerStart ==
    /\ gcs \in Stores
    /\ wpc = "idle"
    /\ filtered_phenotypes = <<>>
    /\ in_flight = {}
    /\ results = <<>>
    /\ listed = NoListed
    /\ wfailed = FALSE
    /\ wreturn = None
    /\ wruns = <<>>

\* The library parts at rest
LibIdle == FoldIdle /\ XposIdle /\ ApiIdle /\ WorkerIdle

-----------------------------------------------------------------------------
(***************************************************************************)
(*                      INGESTION CLI (cli/ingest.rs)                      *)
(***************************************************************************)

\* Rows of the tables.  "a", "b" and "x" come from source tables, "o" is a
\* row an earlier load left; the transform keeps all but "x".
Rows == {"a", "b", "x", "o"}

\* A bag with one copy of each row of the set S
BagOf(S) == [r \in S |-> 1]

\* TableConfig::exome_annotations .. analysis_metadata: name, staging_name
TableConfigs ==
    <<[name |-> "exome_annotations", staging_name |-> "staging_exome_raw"],
      [name |-> "genome_annotations", staging_name |-> "staging_genome_raw"],
      [name |-> "gene_models", staging_name |-> "staging_gene_models_raw"],
      [name |-> "analysis_metadata",
       staging_name |-> "staging_analysis_metadata_raw"]>>

TargetNames == {TableConfigs[i].name : i \in 1..Len(TableConfigs)}
StagingNames == {TableConfigs[i].staging_name : i \in 1..Len(TableConfigs)}
TableNames == TargetNames \cup StagingNames

\* InitStrategy
InitStrategies == {"Create", "Replace", "Append"}

\* IngestCommand: the four single-table commands, All and Status
SingleCommands == TargetNames
Commands == SingleCommands \cup {"All", "Status"}

\* --input: None (the config's default_path) or a custom path
Inputs == {"default", "custom"}

Absent == [exists |-> FALSE, rows |-> EmptyBag]
Table(b) == [exists |-> TRUE, rows |-> b]

\* The rows of the source Hail table an input path names (the environment)
SourceRows(input) ==
    IF input = "default" THEN BagOf({"a", "x"}) ELSE BagOf({"b"})

\* run_ingest: the configs a command loads, in order
ConfigsFor(command) ==
    IF command = "All" THEN TableConfigs
    ELSE IF command \in SingleCommands
         THEN SelectSeq(TableConfigs, LAMBDA c : c.name = command)
         ELSE <<>>

\* "DROP TABLE IF EXISTS name"
DropTableIfExists(s, name) == [s EXCEPT ![name] = Absent]

\* The DDL of a table: CREATE TABLE IF NOT EXISTS name (...)
RunDdl(s, name) ==
    IF s[name].exists THEN s ELSE [s EXCEPT ![name] = Table(EmptyBag)]

\* Rows the transform's SELECT keeps (transforms may filter)
TransformKeeps(r) == r # "x"

Filtered(b) ==
    LET D == {r \in DOMAIN b : TransformKeeps(r)} IN [r \in D |-> b[r]]

\* The transform's first statement: INSERT INTO target SELECT .. FROM staging
InsertSelect(s, cfg) ==
    [s EXCEPT ![cfg.name] =
        Table(s[cfg.name].rows (+) Filtered(s[cfg.staging_name].rows))]

\* Outcomes of prepare_target_table: which of its statements failed, if any
PrepareOutcomes(strategy) ==
    IF strategy = "Replace" THEN {"ok", "drop_failed", "ddl_failed"}
    ELSE {"ok", "ddl_failed"}

\* (mutant) Replace without the DROP: the DDL alone, as under Append
PrepareTargetTableNoDrop(s, cfg, strategy, outcome) ==
    IF outcome = "ok" THEN RunDdl(s, cfg.name) ELSE s

\* (mutant) the Append arm drops the target first, as the Replace arm does
PrepareTargetTableAppendDrops(s, cfg, strategy, outcome) ==
    IF outcome \in {"drop_failed", "ddl_failed"}
    THEN (IF strategy = "Replace" /\ outcome = "ddl_failed"
          THEN DropTableIfExists(s, cfg.name) ELSE s)
    ELSE IF strategy = "Create" THEN RunDdl(s, cfg.name)
         ELSE RunDdl(DropTableIfExists(s, cfg.name), cfg.name)

\* prepare_target_table: the store it leaves, by strategy and outcome
PrepareTargetTable(s, cfg, strategy, outcome) ==
    CASE strategy = "Create" ->
            IF outcome = "ok" THEN RunDdl(s, cfg.name) ELSE s
      [] strategy = "Replace" ->
            IF outcome = "drop_failed" THEN s
            ELSE IF outcome = "ddl_failed"
                 THEN DropTableIfExists(s, cfg.name)
                 ELSE RunDdl(DropTableIfExists(s, cfg.name), cfg.name)
      [] strategy = "Append" ->
            IF outcome = "ok" THEN RunDdl(s, cfg.name) ELSE s

\* The steps of orchestrate_table_load, in the order of the code
StepOrder == <<"prepare_target", "drop_staging", "stage", "transform",
               "verify", "cleanup">>

StepIndex(step) == CHOOSE i \in 1..Len(StepOrder) : StepOrder[i] = step

\* (mutant) a load that fails once staging has begun goes on to the cleanup
AfterStepCleaningUp(step, ok) ==
    IF ~ok /\ step \in {"stage", "transform", "verify"} THEN "cleanup"
    ELSE IF ~ok THEN "load_err"
    ELSE IF StepIndex(step) = Len(StepOrder) THEN "load_ok"
         ELSE StepOrder[StepIndex(step) + 1]

\* (mutant) the result of drop_staging is not propagated
AfterStepIgnoringDropError(step, ok) ==
    IF ~ok /\ step # "drop_staging" THEN "load_err"
    ELSE IF StepIndex(step) = Len(StepOrder) THEN "load_ok"
         ELSE StepOrder[StepIndex(step) + 1]

\* orchestrate_table_load: where the load goes after a step (the ? operator)
AfterStep(step, ok) ==
    IF ~ok THEN "load_err"
    ELSE IF StepIndex(step) = Len(StepOrder) THEN "load_ok"
         ELSE StepOrder[StepIndex(step) + 1]

\* (mutant) the All loop propagates a load's error like the other arms
AfterLoadPropagating(command, ok) ==
    IF ok THEN "next_table" ELSE "return_err"

\* (mutant) the --keep-staging test inverted
CleanupDropsInverted(keep_staging) == keep_staging

\* orchestrate_table_load, step 6: staging is dropped unless --keep-staging
CleanupDrops(keep_staging) == ~keep_staging

\* run_ingest: what follows the end of a load.  Under All the error is
\* logged and the loop continues; a single-table command propagates it.
AfterLoad(command, ok) ==
    IF command = "All" \/ ok THEN "next_table" ELSE "return_err"

NoArgs == [command |-> "none", init_strategy |-> "Replace",
           keep_staging |-> FALSE, input |-> "default"]
NoConfig == [name |-> "none", staging_name |-> "none"]
NoLoad == [table |-> "none", init_strategy |-> "none", input |-> "none",
           keep_staging |-> FALSE, ok |-> FALSE, target |-> Absent,
           before |-> Absent]

\* The store before the first invocation: every target absent, empty or
\* holding earlier rows; every staging table absent or left by an earlier run
InitTargets == {Absent, Table(EmptyBag), Table(BagOf({"o"}))}
InitStagings == {Absent, Table(BagOf({"x"}))}

\* No CLI invocation: every table is absent
IngestIdle ==
    /\ store = [t \in TableNames |-> Absent]
    /\ ipc = "idle"
    /\ args = NoArgs
    /\ queue = <<>>
    /\ cur = NoConfig
    /\ exit = "none"
    /\ runs = 0
    /\ stepTrace = <<>>
    /\ attempted = <<>>
    /\ preStore = [t \in TableNames |-> Absent]
    /\ staged = EmptyBag
    /\ prevLoad = NoLoad

IngestStart ==
    /\ \E t \in InitTargets, g \in InitStagings :
          store = [n \in TableNames |-> IF n \in TargetNames THEN t ELSE g]
    /\ ipc = "idle"
    /\ args = NoArgs
    /\ queue = <<>>
    /\ cur = NoConfig
    /\ exit = "none"
    /\ runs = 0
    /\ stepTrace = <<>>
    /\ attempted = <<>>
    /\ preStore = store
    /\ staged = EmptyBag
    /\ prevLoad = NoLoad

\* run_ingest is entered with a command of the set cmds
RunIngest(cmds) ==
    /\ UNCHANGED <<discVars, cacheVars, overVars, libVars>>
    /\ ipc = "idle"
    /\ \E c \in cmds, st \in InitStrategies, k \in BOOLEAN, i \in Inputs :
          /\ args' = [command |-> c, init_strategy |-> st,
                      keep_staging |-> k, input |-> i]
          /\ queue' = ConfigsFor(c)
    /\ runs' = runs + 1
    /\ exit' = "none"
    /\ attempted' = <<>>
    /\ stepTrace' = <<>>
    /\ ipc' = "next_table"
    /\ UNCHANGED <<store, cur, preStore, staged, prevLoad>>

\* orchestrate_table_load is entered for the next config
BeginLoad ==
    /\ UNCHANGED <<discVars, cacheVars, overVars, libVars>>
    /\ ipc = "next_table"
    /\ queue # <<>>
    /\ cur' = Head(queue)
    /\ queue' = Tail(queue)
    /\ stepTrace' = <<>>
    /\ preStore' = store
    /\ staged' = EmptyBag
    /\ ipc' = "prepare_target"
    /\ UNCHANGED <<store, args, exit, runs, attempted, prevLoad>>

Step(step, ok) ==
    /\ stepTrace' = Append(stepTrace, <<step, ok>>)
    /\ ipc' = AfterStep(step, ok)
    /\ UNCHANGED <<args, queue, cur, exit, runs, attempted, preStore,
                   prevLoad>>

\* Step 1: prepare_target_table
PrepareTarget ==
    /\ UNCHANGED <<discVars, cacheVars, overVars, libVars>>
    /\ ipc = "prepare_target"
    /\ \E o \in PrepareOutcomes(args.init_strategy) :
          /\ store' = PrepareTargetTable(store, cur, args.init_strategy, o)
          /\ Step("prepare_target", o = "ok")
    /\ UNCHANGED staged

\* Step 2: DROP TABLE IF EXISTS staging
DropStaging ==
    /\ UNCHANGED <<discVars, cacheVars, overVars, libVars>>
    /\ ipc = "drop_staging"
    /\ \E ok \in BOOLEAN :
          /\ store' = IF ok THEN DropTableIfExists(store, cur.staging_name)
                      ELSE store
          /\ Step("drop_staging", ok)
    /\ UNCHANGED staged

\* Step 3: run_hail_decoder_export.  The decoder creates the staging table
\* and fills it from the source; when it fails it may have created the
\* table and written any part of the source.
Stage ==
    /\ UNCHANGED <<discVars, cacheVars, overVars, libVars>>
    /\ ipc = "stage"
    /\ \/ /\ store' = [store EXCEPT ![cur.staging_name] =
                          Table(store[cur.staging_name].rows
                                (+) SourceRows(args.input))]
          /\ staged' = SourceRows(args.input)
          /\ Step("stage", TRUE)
       \/ /\ \E part \in SubBag(SourceRows(args.input)) :
                store' = [store EXCEPT ![cur.staging_name] =
                             IF part = EmptyBag THEN @
                             ELSE Table(@.rows (+) part)]
          /\ staged' = staged
          /\ Step("stage", FALSE)

\* Step 4: the transform SQL, statement by statement: the INSERT .. SELECT,
\* then maintenance (OPTIMIZE) that changes no rows
Transform ==
    /\ UNCHANGED <<discVars, cacheVars, overVars, libVars>>
    /\ ipc = "transform"
    /\ \E o \in {"ok", "insert_failed", "optimize_failed"} :
          /\ store' = IF o = "insert_failed" THEN store
                      ELSE InsertSelect(store, cur)
          /\ Step("transform", o = "ok")
    /\ UNCHANGED staged

\* Step 5: get_row_count of staging and target (fails on unparsable output)
Verify ==
    /\ UNCHANGED <<discVars, cacheVars, overVars, libVars>>
    /\ ipc = "verify"
    /\ \E ok \in BOOLEAN : Step("verify", ok)
    /\ UNCHANGED <<store, staged>>

\* Step 6: drop staging unless --keep-staging
Cleanup ==
    /\ UNCHANGED <<discVars, cacheVars, overVars, libVars>>
    /\ ipc = "cleanup"
    /\ IF ~CleanupDrops(args.keep_staging)
       THEN /\ store' = store
            /\ Step("cleanup", TRUE)
       ELSE \E ok \in BOOLEAN :
               /\ store' = IF ok
                           THEN DropTableIfExists(store, cur.staging_name)
                           ELSE store
               /\ Step("cleanup", ok)
    /\ UNCHANGED staged

\* orchestrate_table_load returns to run_ingest
EndLoad ==
    /\ UNCHANGED <<discVars, cacheVars, overVars, libVars>>
    /\ ipc \in {"load_ok", "load_err"}
    /\ LET ok == (ipc = "load_ok") IN
          /\ attempted' = Append(attempted, <<cur.name, ok>>)
          /\ ipc' = AfterLoad(args.command, ok)
          /\ prevLoad' = [table |-> cur.name,
                          init_strategy |-> args.init_strategy,
                          input |-> args.input,
                          keep_staging |-> args.keep_staging,
                          ok |-> ok, target |-> store[cur.name],
                          before |-> preStore[cur.name]]
    /\ cur' = NoConfig
    /\ stepTrace' = <<>>
    /\ preStore' = store
    /\ staged' = EmptyBag
    /\ UNCHANGED <<store, args, queue, exit, runs>>

\* run_ingest returns Ok(()) after its match arm
ReturnOk ==
    /\ UNCHANGED <<discVars, cacheVars, overVars, libVars>>
    /\ ipc = "next_table"
    /\ queue = <<>>
    /\ exit' = "ok"
    /\ ipc' = "idle"
    /\ UNCHANGED <<store, args, queue, cur, runs, stepTrace, attempted,
                   preStore, staged, prevLoad>>

\* run_ingest returns the load's error (orchestrate_table_load(..).await?)
\* or the error of show_status(..).await?
ReturnErr ==
    /\ UNCHANGED <<discVars, cacheVars, overVars, libVars>>
    /\ \/ ipc = "return_err"
       \/ ipc = "next_table" /\ args.command = "Status"
    /\ exit' = "err"
    /\ ipc' = "idle"
    /\ UNCHANGED <<store, args, queue, cur, runs, stepTrace, attempted,
                   preStore, staged, prevLoad>>

\* The CLI invoked up to MaxRuns times with a single-table command or status;
\* the loads of one behaviour are loads of one table (a load is re-run)
RunIngestSingle ==
    /\ runs < MaxRuns
    /\ RunIngest({c \in SingleCommands :
                     prevLoad.table \in {"none", c}} \cup {"Status"})

\* The CLI invoked once, with any command
RunIngestOnce ==
    /\ runs = 0
    /\ RunIngest(Commands)

IngestSteps ==
    \/ BeginLoad
    \/ PrepareTarget
    \/ DropStaging
    \/ Stage
    \/ Transform
    \/ Verify
    \/ Cleanup
    \/ EndLoad
    \/ ReturnOk
    \/ ReturnErr

IngestNext == RunIngestSingle \/ IngestSteps

IngestAllNext == RunIngestOnce \/ IngestSteps

IngestInit ==
    IngestStart /\ DiscoveryIdle /\ CacheIdle /\ OverviewIdle /\ LibIdle

SpecIngestAll == IngestInit /\ [][IngestAllNext]_vars

SpecIngest == IngestInit /\ [][IngestNext]_vars

-----------------------------------------------------------------------------
(* Properties of the ingestion CLI *)

Loading == cur # NoConfig

Last(q) == q[Len(q)]

\* The target a successful load under `strategy` leaves in an empty store
FreshLoad(cfg, strategy, input) ==
    LET s0 == [n \in TableNames |-> Absent]
        s1 == PrepareTargetTable(s0, cfg, strategy, "ok")
        s2 == DropTableIfExists(s1, cfg.staging_name)
        s3 == [s2 EXCEPT ![cfg.staging_name] = Table(SourceRows(input))]
    IN  InsertSelect(s3, cfg)[cfg.name]

\* The current load repeats the previous one: same table, strategy and
\* source, and the previous one succeeded
RepeatsPrevious(strategy) ==
    /\ ipc = "load_ok"
    /\ args.init_strategy = strategy
    /\ prevLoad.ok
    /\ prevLoad.table = cur.name
    /\ prevLoad.init_strategy = strategy
    /\ prevLoad.input = args.input

\* C3: the steps of a load happen in the order prepare_target, drop_staging,
\* stage, transform, verify, cleanup; a step starts only when every earlier
\* step of the load succeeded, and a failing step ends the load with an
\* error and no later step runs.
C3_StepsInOrder ==
    /\ Len(stepTrace) <= Len(StepOrder)
    /\ \A i \in 1..Len(stepTrace) :
          /\ stepTrace[i][1] = StepOrder[i]
          /\ i < Len(stepTrace) => stepTrace[i][2]
    /\ (stepTrace # <<>> /\ ~Last(stepTrace)[2]) => ipc = "load_err"
    /\ ipc = "load_err" => (stepTrace # <<>> /\ ~Last(stepTrace)[2])
    /\ ipc = "load_ok" =>
          (Len(stepTrace) = Len(StepOrder) /\ Last(stepTrace)[2])
    /\ \A i \in 1..Len(StepOrder) :
          ipc = StepOrder[i] => Len(stepTrace) = i - 1

\* C3 witness: a load that failed at transform after three successful steps
C3_Witness ==
    /\ ipc = "load_err"
    /\ stepTrace = <<<<"prepare_target", TRUE>>, <<"drop_staging", TRUE>>,
                     <<"stage", TRUE>>, <<"transform", FALSE>>>>

\* C4: under `ingest all` the four tables are attempted exactly once each,
\* in the order exome_annotations, genome_annotations, gene_models,
\* analysis_metadata, whatever loads failed, and run_ingest returns Ok.
C4_AllAttemptsEveryTable ==
    args.command = "All" =>
        /\ Len(attempted) <= Len(TableConfigs)
        /\ \A i \in 1..Len(attempted) : attempted[i][1] = TableConfigs[i].name
        /\ Loading => cur = TableConfigs[Len(attempted) + 1]
        /\ ipc # "return_err"
        /\ exit # "err"
        /\ ipc = "idle" => (exit = "ok" /\ Len(attempted) = Len(TableConfigs))

\* C4 witness: `all` returned Ok after the first three loads failed and the
\* fourth succeeded
C4_Witness ==
    /\ args.command = "All"
    /\ ipc = "idle"
    /\ exit = "ok"
    /\ Len(attempted) = 4
    /\ ~attempted[1][2] /\ ~attempted[2][2] /\ ~attempted[3][2]
    /\ attempted[4][2]

\* C5: a successful load under Replace leaves the target as a load into an
\* empty store leaves it, whatever the target held before; a second
\* identical Replace load leaves the target as the first one left it.
C5_ReplaceIdempotent ==
    (ipc = "load_ok" /\ args.init_strategy = "Replace") =>
        /\ store[cur.name] = FreshLoad(cur, "Replace", args.input)
        /\ RepeatsPrevious("Replace") => store[cur.name] = prevLoad.target

\* C5 witness: the second of two identical Replace loads, the first of which
\* found earlier rows in the target
C5_Witness ==
    /\ RepeatsPrevious("Replace")
    /\ prevLoad.before = Table(BagOf({"o"}))
    /\ BagCardinality(store[cur.name].rows) > 0

\* C6 (as claimed): a second identical successful load under Create leaves
\* the target as the first one left it.
C6_CreateIdempotent ==
    RepeatsPrevious("Create") => store[cur.name] = prevLoad.target

\* C7 (as claimed): under Create a load whose target already exists fails at
\* prepare_target, runs no later step and leaves the target's rows unchanged.
C7_CreateFailsOnExistingTarget ==
    (Loading /\ args.init_strategy = "Create" /\ preStore[cur.name].exists
        /\ stepTrace # <<>>) =>
        /\ stepTrace = <<<<"prepare_target", FALSE>>>>
        /\ store[cur.name] = preStore[cur.name]

\* C8: after a successful load the staging table does not exist when
\* --keep-staging is unset and holds exactly the rows the decoder staged when
\* it is set; the decoder is never invoked while an old staging table exists.
C8_StagingAfterLoad ==
    /\ ipc = "stage" => ~store[cur.staging_name].exists
    /\ ipc = "load_ok" =>
          IF args.keep_staging
          THEN store[cur.staging_name] = Table(SourceRows(args.input))
               /\ staged = SourceRows(args.input)
          ELSE ~store[cur.staging_name].exists

\* C8 witness: a successful load with --keep-staging that found an old
\* staging table
C8_Witness ==
    /\ ipc = "load_ok"
    /\ args.keep_staging
    /\ preStore[cur.staging_name] = Table(BagOf({"x"}))
    /\ store[cur.staging_name] = Table(staged)
    /\ staged # BagOf({"x"})

-----------------------------------------------------------------------------
(***************************************************************************)
(*            discover_all and its workers (analysis_assets.rs)            *)
(***************************************************************************)

Spawned == {i \in AncestryIndexes : workers[i] # "unspawned"}

\* discover_all spawns the worker of the next ancestry (tokio::spawn)
Spawn ==
    /\ UNCHANGED <<ingestVars, cacheVars, overVars, libVars>>
    /\ dpc = "spawning"
    /\ LET i == Cardinality(Spawned) + 1 IN
          /\ workers' = [workers EXCEPT ![i] = "running"]
          /\ dpc' = IF i = Len(Ancestries) THEN "collecting" ELSE "spawning"
    /\ UNCHANGED <<awaited, all_assets, dresult>>

\* A spawned worker (discover_for_ancestry) returns its assets, returns an
\* error, or panics
WorkerReturn ==
    /\ UNCHANGED <<ingestVars, cacheVars, overVars, libVars>>
    /\ \E i \in AncestryIndexes, o \in WorkerOutcomes :
          /\ workers[i] = "running"
          /\ workers' = [workers EXCEPT ![i] = o]
    /\ UNCHANGED <<dpc, awaited, all_assets, dresult>>

\* discover_all awaits the next handle, in spawn order, and matches on it
AwaitHandle ==
    /\ UNCHANGED <<ingestVars, cacheVars, overVars, libVars>>
    /\ dpc = "collecting"
    /\ awaited < Len(Ancestries)
    /\ LET i == awaited + 1 IN
          /\ workers[i] \in WorkerOutcomes
          /\ all_assets' = Collect(all_assets, workers[i], WorkerAssets(i))
          /\ dpc' = AfterAwait(workers[i])
    /\ awaited' = awaited + 1
    /\ UNCHANGED <<workers, dresult>>

\* discover_all returns Ok(AnalysisAssets { assets: all_assets })
DiscoverAllReturn ==
    /\ UNCHANGED <<ingestVars, cacheVars, overVars, libVars>>
    /\ dpc = "collecting"
    /\ awaited = Len(Ancestries)
    /\ dresult' = "ok"
    /\ dpc' = "done"
    /\ UNCHANGED <<workers, awaited, all_assets>>

DiscoverNext ==
    \/ Spawn
    \/ WorkerReturn
    \/ AwaitHandle
    \/ DiscoverAllReturn

DiscoverInit ==
    DiscoveryStart /\ IngestIdle /\ CacheIdle /\ OverviewIdle /\ LibIdle

SpecDiscover == DiscoverInit /\ [][DiscoverNext]_vars

(* Properties of discover_all *)

\* The assets of the successful workers among the first n, in ancestry order
RECURSIVE AssetsOfSucceeded(_)
AssetsOfSucceeded(n) ==
    IF n = 0 THEN <<>>
    ELSE AssetsOfSucceeded(n - 1)
            \o (IF workers[n] = "ok" THEN WorkerAssets(n) ELSE <<>>)

\* C2: discover_all is partial-success: whatever workers fail or panic, it
\* awaits all seven, returns Ok, and its result is exactly the assets of the
\* workers that succeeded, in the order AFR, AMR, EAS, EUR, MID, SAS, META.
C2_PartialSuccess ==
    /\ dpc \in {"idle", "spawning", "collecting", "done"}
    /\ dresult # "err"
    /\ all_assets = AssetsOfSucceeded(awaited)
    /\ dpc = "done" =>
          /\ dresult = "ok"
          /\ awaited = Len(Ancestries)
          /\ \A i \in AncestryIndexes : workers[i] \in WorkerOutcomes

\* C2 witness: discover_all returned the assets of EAS..META although the
\* AFR worker failed and the AMR worker panicked
C2_Witness ==
    /\ dpc = "done"
    /\ dresult = "ok"
    /\ workers[1] = "err"
    /\ workers[2] = "panicked"
    /\ \A i \in 3..7 : workers[i] = "ok"
    /\ Len(all_assets) = 5

-----------------------------------------------------------------------------
(***************************************************************************)
(*        The handlers of the asset cache (api.rs, gene_queries.rs)        *)
(***************************************************************************)

\* (mutant) the write guard is granted while read guards are held
CanWriteIgnoringReaders(rs, ws) == ws = {}

\* RwLock::write().await returns: no guard of either kind is held
CanWrite(rs, ws) == rs = {} /\ ws = {}

\* RwLock::read().await returns: no write guard is held
CanRead(ws) == ws = {}

\* (mutant) the guard of the check outlives its block
ReleaseReadLeaking(rs, r) == rs

\* A read guard is dropped (end of the block or of the handler)
ReleaseRead(rs, r) == rs \ {r}

\* (mutant) refresh is ignored: only an empty cache asks for a discovery
NeedsDiscoveryWhenEmpty(kind, refresh, c) == c = None

\* (mutant) every request discovers, whatever the cache holds
NeedsDiscoveryAlways(kind, refresh, c) == TRUE

\* (mutant) only a refresh asks for a discovery; an empty cache does not
NeedsDiscoveryOnRefreshOnly(kind, refresh, c) ==
    kind = "get_assets" /\ refresh

\* needs_discovery of get_assets (is_none() || refresh) and of the other
\* handlers (is_none())
NeedsDiscovery(kind, refresh, c) ==
    c = None \/ (kind = "get_assets" /\ refresh)

\* What reading None does to a handler: get_assets and get_assets_summary
\* unwrap() it, query_gene and query_all_genes return "Assets not loaded"
OnNone(kind) ==
    IF kind \in {"get_assets", "get_assets_summary"} THEN "panic" ELSE "err"

\* Outcomes of the seven workers a discovery may meet: all succeed, all fail,
\* or some fail or panic
DiscoveryScenarios ==
    {[i \in AncestryIndexes |-> "ok"],
     [i \in AncestryIndexes |-> "err"],
     [i \in AncestryIndexes |-> IF i = 1 THEN "err"
                                ELSE IF i = 2 THEN "panicked" ELSE "ok"]}

Set(r, f) == req' = [req EXCEPT ![r] = f]

\* run_server: the cache starts as None, or as the inventory of --assets-file
CacheStart ==
    /\ \E preloaded \in BOOLEAN :
          /\ cache = IF preloaded THEN Some(FileInventory) ELSE None
          /\ finished = IF preloaded THEN {FileInventory} ELSE {}
    /\ readers = {}
    /\ writers = {}
    /\ req = [r \in Requests |-> IdleRequest]
    /\ nextRun = 0

\* A request arrives at one of the handlers
Arrive(r) ==
    /\ UNCHANGED <<ingestVars, discVars, overVars, libVars>>
    /\ req[r].pc = "idle"
    /\ \E k \in Kinds, f \in BOOLEAN :
          /\ f => k = "get_assets"
          /\ Set(r, [req[r] EXCEPT !.kind = k, !.refresh = f, !.pc = "check"])
    /\ UNCHANGED <<cache, readers, writers, nextRun, finished>>

\* The needs_discovery block: state.assets.read().await, the test, and the
\* drop of the block's guard
Check(r) ==
    /\ UNCHANGED <<ingestVars, discVars, overVars, libVars>>
    /\ req[r].pc = "check"
    /\ CanRead(writers)
    /\ readers' = ReleaseRead(readers \cup {r}, r)
    /\ Set(r, [req[r] EXCEPT
                 !.refresh = FALSE,
                 !.pc = IF NeedsDiscovery(req[r].kind, req[r].refresh, cache)
                        THEN "new_client" ELSE "loaded"])
    /\ UNCHANGED <<cache, writers, nextRun, finished>>

\* AssetDiscovery::new()?: the handler returns the error when it fails;
\* otherwise discover_all is called
NewClient(r) ==
    /\ UNCHANGED <<ingestVars, discVars, overVars, libVars>>
    /\ req[r].pc = "new_client"
    /\ \/ /\ Set(r, [req[r] EXCEPT !.pc = "discovering",
                                   !.discovered = [run |-> nextRun + 1,
                                                   assets |-> <<>>]])
          /\ nextRun' = nextRun + 1
       \/ /\ Set(r, Returned("err"))
          /\ nextRun' = nextRun
    /\ UNCHANGED <<cache, readers, writers, finished>>

\* discover_all returns Ok(inventory) (it has no error return)
DiscoverFinish(r) ==
    /\ UNCHANGED <<ingestVars, discVars, overVars, libVars>>
    /\ req[r].pc = "discovering"
    /\ \E statuses \in DiscoveryScenarios :
          LET inv == [run |-> req[r].discovered.run,
                      assets |-> DiscoverAllResult(statuses)]
          IN  /\ Set(r, [req[r] EXCEPT !.pc = "write", !.discovered = inv])
              /\ finished' = finished \cup {inv}
    /\ UNCHANGED <<cache, readers, writers, nextRun>>

\* state.assets.write().await returns and *assets_lock = Some(discovered)
\* begins: the old value is being replaced
WriteBegin(r) ==
    /\ UNCHANGED <<ingestVars, discVars, overVars, libVars>>
    /\ req[r].pc = "write"
    /\ CanWrite(readers, writers)
    /\ writers' = writers \cup {r}
    /\ cache' = Torn
    /\ Set(r, [req[r] EXCEPT !.pc = "replacing"])
    /\ UNCHANGED <<readers, nextRun, finished>>

\* the assignment is complete and the write guard is dropped
WriteEnd(r) ==
    /\ UNCHANGED <<ingestVars, discVars, overVars, libVars>>
    /\ req[r].pc = "replacing"
    /\ cache' = Some(req[r].discovered)
    /\ writers' = writers \ {r}
    /\ Set(r, [req[r] EXCEPT !.pc = "loaded", !.discovered = NoInventory])
    /\ UNCHANGED <<readers, nextRun, finished>>

\* state.assets.read().await of the handler's body (of query_gene and
\* query_all_genes for the gene handlers) and assets.as_ref(): unwrap() or
\* ok_or_else(..)?
ReadUnwrap(r) ==
    /\ UNCHANGED <<ingestVars, discVars, overVars, libVars>>
    /\ req[r].pc = "loaded"
    /\ CanRead(writers)
    /\ IF cache = None
       THEN /\ Set(r, Returned(OnNone(req[r].kind)))
            /\ readers' = ReleaseRead(readers \cup {r}, r)
       ELSE /\ Set(r, [req[r] EXCEPT !.seen = cache, !.pc = "using"])
            /\ readers' = readers \cup {r}
    /\ UNCHANGED <<cache, writers, nextRun, finished>>

\* The handler goes through the inventory (filter, summary, table queries)
\* under the same guard, then drops it and returns
ReadFinish(r) ==
    /\ UNCHANGED <<ingestVars, discVars, overVars, libVars>>
    /\ req[r].pc = "using"
    /\ Set(r, Returned(IF cache = req[r].seen THEN "ok" ELSE "mixed"))
    /\ readers' = ReleaseRead(readers, r)
    /\ UNCHANGED <<cache, writers, nextRun, finished>>

CacheNext ==
    \E r \in Requests :
        \/ Arrive(r)
        \/ Check(r)
        \/ NewClient(r)
        \/ DiscoverFinish(r)
        \/ WriteBegin(r)
        \/ WriteEnd(r)
        \/ ReadUnwrap(r)
        \/ ReadFinish(r)

CacheInit ==
    CacheStart /\ IngestIdle /\ DiscoveryIdle /\ OverviewIdle /\ LibIdle

SpecCache == CacheInit /\ [][CacheNext]_vars

(* Properties of the asset cache *)

\* A value read from the cache is None or one finished run's whole inventory
CompleteSnapshot(v) ==
    \/ v \in {NotRead, None}
    \/ v.tag = "Some" /\ v.inv \in finished

\* C1: under any interleaving of the handlers, every read of the cache sees
\* None or the complete inventory of exactly one finished discovery run,
\* never a partially written value or two runs' values, and at most one
\* request holds the write guard at any instant.
C1_ReadsSeeCompleteSnapshots ==
    /\ Cardinality(writers) <= 1
    /\ writers # {} => readers = {}
    /\ readers # {} => cache # Torn
    /\ \A r \in Requests :
          /\ CompleteSnapshot(req[r].seen)
          /\ req[r].pc = "using" => req[r].seen = cache
          /\ req[r].result # "mixed"

\* C1 witness: a request has read the inventory of one run and still holds
\* its read guard while another request, its own discovery finished, waits
\* for the write guard
C1_Witness ==
    \E r1, r2 \in Requests :
        /\ req[r1].pc = "using"
        /\ r1 \in readers
        /\ req[r1].seen.tag = "Some"
        /\ req[r1].seen.inv.run = 1
        /\ req[r2].pc = "write"
        /\ req[r2].discovered.run = 2

\* C9 (as claimed): while a discovery is in progress its request holds the
\* write guard.
C9_WriterHoldsLockDuringDiscovery ==
    \A r \in Requests : req[r].pc = "discovering" => r \in writers

\* C9 (amended): no guard is held while a discovery runs.  The read guard of
\* the check is dropped before the discovery starts, and the write guard is
\* taken only after discover_all has returned, for the replacement alone.
C9_NoLockDuringDiscovery ==
    \A r \in Requests :
        /\ req[r].pc \in {"new_client", "discovering", "write"}
              => r \notin readers \cup writers
        /\ r \in writers =>
              /\ req[r].pc = "replacing"
              /\ req[r].discovered \in finished

\* C9 witness: one request's discovery is in progress while another request
\* holds the write guard and replaces the cache
C9_Witness ==
    \E r1, r2 \in Requests :
        /\ req[r1].pc = "discovering"
        /\ r2 \in writers
        /\ req[r2].pc = "replacing"


-----------------------------------------------------------------------------
(***************************************************************************)
(*      UNIFIED OVERVIEW (phenotype/overview.rs): get_phenotype_overview   *)
(* The fetched vectors are revealed row by row as the loops walk them.     *)
(***************************************************************************)

\* for peak in &genome_peaks: one iteration
AddGenomePeak ==
    /\ UNCHANGED <<ingestVars, discVars, cacheVars, libVars>>
    /\ opc = "genome"
    /\ fetched < MaxFetched
    /\ \E peak \in Peaks :
          /\ loci_map' = Insert(loci_map,
                                LocusKey(peak.contig, peak.position),
                                peak_to_unified_locus(peak, "genome"))
          /\ inputs' = inputs \cup {<<peak.contig, peak.position>>}
    /\ fetched' = fetched + 1
    /\ UNCHANGED <<opc, gene_burden_map, unified_loci>>

\* for peak in &exome_peaks: one iteration
MergeExomePeak ==
    /\ UNCHANGED <<ingestVars, discVars, cacheVars, libVars>>
    /\ opc \in {"genome", "exome"}
    /\ fetched < MaxFetched
    /\ \E peak \in Peaks :
          /\ loci_map' = MergeExome(loci_map, peak)
          /\ inputs' = inputs \cup {<<peak.contig, peak.position>>}
    /\ fetched' = fetched + 1
    /\ opc' = "exome"
    /\ UNCHANGED <<gene_burden_map, unified_loci>>

\* for row in &burden_rows: one iteration of the grouping loop
GroupBurdenRow ==
    /\ UNCHANGED <<ingestVars, discVars, cacheVars, libVars>>
    /\ opc \in {"genome", "exome", "group"}
    /\ fetched < MaxFetched
    /\ \E row \in SignificantBurdenRows :
          /\ gene_burden_map' = GroupRow(gene_burden_map, row)
          /\ inputs' = IF row.gene_id \in DOMAIN gene_burden_map
                       THEN inputs
                       ELSE inputs \cup {<<row.contig, row.gene_start_position>>}
    /\ fetched' = fetched + 1
    /\ opc' = "group"
    /\ UNCHANGED <<loci_map, unified_loci>>

\* for (gene_id, rows) in gene_burden_map: one iteration; the map is consumed
\* in the order its hasher yields
MergeBurdenGene ==
    /\ UNCHANGED <<ingestVars, discVars, cacheVars, libVars>>
    /\ opc \in {"group", "burden"}
    /\ \E gene_id \in DOMAIN gene_burden_map :
          /\ loci_map' = MergeBurden(loci_map, gene_id, gene_burden_map[gene_id])
          /\ gene_burden_map' =
                [g \in DOMAIN gene_burden_map \ {gene_id} |-> gene_burden_map[g]]
    /\ opc' = "burden"
    /\ UNCHANGED <<unified_loci, fetched, inputs>>

\* The loops are over: collect, sort and return
SortAndReturn ==
    /\ UNCHANGED <<ingestVars, discVars, cacheVars, libVars>>
    /\ opc \in {"genome", "exome", "group", "burden"}
    /\ DOMAIN gene_burden_map = {}
    /\ unified_loci' \in SortedValues(loci_map)
    /\ opc' = "done"
    /\ UNCHANGED <<loci_map, gene_burden_map, fetched, inputs>>

OverviewNext ==
    \/ AddGenomePeak
    \/ MergeExomePeak
    \/ GroupBurdenRow
    \/ MergeBurdenGene
    \/ SortAndReturn

OverviewInit ==
    OverviewStart /\ IngestIdle /\ DiscoveryIdle /\ CacheIdle /\ LibIdle

SpecOverview == OverviewInit /\ [][OverviewNext]_vars

\* The key the overview's loci are identified by: (contig, 1 Mb bin)
BinKey(contig, position) == <<contig, position \div 1000000>>

\* C10: in the returned unified_loci no two loci have the same key
\* (contig, position div 1,000,000), and the key of every locus is the key of
\* a genome peak, an exome peak or a burden gene (at the gene_start_position
\* of its first row) among the inputs.
C10_LociUniqueFromInputs ==
    opc = "done" =>
       /\ \A i, j \in 1..Len(unified_loci) :
             i # j =>
                BinKey(unified_loci[i].contig, unified_loci[i].position)
                   # BinKey(unified_loci[j].contig, unified_loci[j].position)
       /\ \A i \in 1..Len(unified_loci) :
             \E input \in inputs :
                BinKey(input[1], input[2])
                   = BinKey(unified_loci[i].contig, unified_loci[i].position)

\* Reached: three inputs, two of them in one bin, returned as two loci
C10_Witness ==
    /\ opc = "done"
    /\ Cardinality(inputs) = 3
    /\ Len(unified_loci) = 2
    /\ \E i \in 1..2 :
          /\ unified_loci[i].pvalue_genome # None
          /\ unified_loci[i].pvalue_exome # None

\* A locus has a genome or an exome p-value
HasPvalue(locus) == locus.pvalue_genome # None \/ locus.pvalue_exome # None

\* The smaller of the p-values a locus has
BestPvalue(locus) ==
    IF locus.pvalue_genome = None THEN locus.pvalue_exome.inv
    ELSE IF locus.pvalue_exome = None THEN locus.pvalue_genome.inv
    ELSE IF locus.pvalue_genome.inv <= locus.pvalue_exome.inv
         THEN locus.pvalue_genome.inv ELSE locus.pvalue_exome.inv

\* C12: unified_loci is sorted ascending by best p-value, the minimum of the
\* genome and exome p-values with an absent one counted as infinity: a locus
\* with a p-value is preceded only by loci with p-values that are not larger,
\* so every locus with a p-value precedes every burden-only locus.
C12_SortedByBestPvalue ==
    opc = "done" =>
       \A i, j \in 1..Len(unified_loci) :
          (i < j /\ HasPvalue(unified_loci[j])) =>
             /\ HasPvalue(unified_loci[i])
             /\ BestPvalue(unified_loci[i]) <= BestPvalue(unified_loci[j])

\* C12 witness: an exome-only locus of p-value 1, a genome-only locus of
\* p-value 2 and a burden-only locus, returned in that order
C12_Witness ==
    /\ opc = "done"
    /\ Len(unified_loci) = 3
    /\ unified_loci[1].pvalue_genome = None
    /\ unified_loci[1].pvalue_exome = Some(1)
    /\ unified_loci[2].pvalue_genome = Some(2)
    /\ unified_loci[2].pvalue_exome = None
    /\ ~HasPvalue(unified_loci[3])


-----------------------------------------------------------------------------
(***************************************************************************)
(*   PEAK FOLDING (phenotype/manhattan.rs): the loop of                    *)
(*   fetch_peak_annotations.  The rows are revealed as the loop walks them.*)
(***************************************************************************)

\* for row in rows: one iteration
FoldRow ==
    /\ UNCHANGED <<serverVars, xposVars, apiVars, workerVars>>
    /\ fpc = "folding"
    /\ Len(frows) < MaxRows
    /\ \E row \in PeakGeneRows :
          /\ frows' = Append(frows, row)
          /\ IF SamePeak(current_peak, row)
             THEN /\ current_peak' = PushGene(current_peak, row)
                  /\ peaks' = peaks
             ELSE /\ peaks' = PushPeak(peaks, current_peak)
                  /\ current_peak' = NewPeak(row)
    /\ fpc' = fpc

\* The rows are exhausted: the last peak is pushed and Ok(peaks) returned
FoldReturn ==
    /\ UNCHANGED <<serverVars, xposVars, apiVars, workerVars>>
    /\ fpc = "folding"
    /\ peaks' = PushPeak(peaks, current_peak)
    /\ current_peak' = None
    /\ fpc' = "done"
    /\ frows' = frows

FoldNext == FoldRow \/ FoldReturn

FoldInit ==
    /\ FoldStart /\ XposIdle /\ ApiIdle /\ WorkerIdle
    /\ IngestIdle /\ DiscoveryIdle /\ CacheIdle /\ OverviewIdle

SpecFold == FoldInit /\ [][FoldNext]_vars

(* Properties of the fold *)

\* A run is a maximal stretch of consecutive rows with the same
\* (contig, peak_position); RunStarts are the indexes of the runs' first rows
RunStarts(rows) ==
    { i \in 1..Len(rows) :
         i = 1 \/ rows[i].contig # rows[i - 1].contig
               \/ rows[i].peak_position # rows[i - 1].peak_position }

\* The index of the first row of the k-th run
RunStart(rows, k) ==
    CHOOSE i \in RunStarts(rows) :
       Cardinality({j \in RunStarts(rows) : j <= i}) = k

\* The index of the last row of the k-th run
RunEnd(rows, k) ==
    IF k = Cardinality(RunStarts(rows)) THEN Len(rows)
    ELSE RunStart(rows, k + 1) - 1

RECURSIVE Concat(_)
Concat(seqs) == IF seqs = <<>> THEN <<>> ELSE Head(seqs) \o Concat(Tail(seqs))

\* C11: folding preserves order and content: the genes of the output peaks,
\* concatenated in output order, are the input rows' genes in input order
\* (one per row); there is one peak per run, in the order of the runs, with
\* the contig, position and p-value of the first row of its run and the genes
\* of the rows of its run.
C11_FoldPreservesOrder ==
    fpc = "done" =>
       /\ Concat([k \in 1..Len(peaks) |-> peaks[k].genes])
             = [i \in 1..Len(frows) |-> [gene_id |-> frows[i].gene_id]]
       /\ Len(peaks) = Cardinality(RunStarts(frows))
       /\ \A k \in 1..Len(peaks) :
             LET first == frows[RunStart(frows, k)]
             IN  /\ peaks[k].contig = first.contig
                 /\ peaks[k].position = first.peak_position
                 /\ peaks[k].pvalue = first.peak_pvalue
                 /\ Len(peaks[k].genes)
                       = RunEnd(frows, k) - RunStart(frows, k) + 1

\* C11 witness: the example of the claim, rows (chr1,100,g1), (chr1,100,g2),
\* (chr2,500,g1) folded into two peaks of two genes and one gene
C11_Witness ==
    /\ fpc = "done"
    /\ Len(frows) = 3
    /\ Len(peaks) = 2
    /\ peaks[1].contig = "chr1" /\ peaks[1].position = 100
    /\ peaks[1].genes = <<[gene_id |-> "g1"], [gene_id |-> "g2"]>>
    /\ peaks[2].contig = "chr2" /\ peaks[2].position = 500
    /\ Len(peaks[2].genes) = 1

\* The rows are a result of the query: one p-value per peak, one row per
\* peak and gene, ORDER BY peak_pvalue ASC, distance_to_peak ASC
QueryResult(rows) ==
    /\ \A i, j \in 1..Len(rows) :
          /\ (rows[i].contig = rows[j].contig
                 /\ rows[i].peak_position = rows[j].peak_position)
                => rows[i].peak_pvalue = rows[j].peak_pvalue
          /\ (rows[i].contig = rows[j].contig
                 /\ rows[i].peak_position = rows[j].peak_position
                 /\ rows[i].gene_id = rows[j].gene_id) => i = j
    /\ \A i \in 1..(Len(rows) - 1) :
          \/ rows[i].peak_pvalue < rows[i + 1].peak_pvalue
          \/ /\ rows[i].peak_pvalue = rows[i + 1].peak_pvalue
             /\ rows[i].distance_kb <= rows[i + 1].distance_kb

\* C24: given a query result ordered by (peak_pvalue, distance_to_peak),
\* the forward pass yields exactly one Peak per distinct (contig,
\* peak_position): no (contig, peak_position) appears in two output peaks,
\* including when two different peaks have equal peak_pvalue.
C24_OnePeakPerPosition ==
    (fpc = "done" /\ QueryResult(frows)) =>
        \A k, l \in 1..Len(peaks) :
            (peaks[k].contig = peaks[l].contig
                /\ peaks[k].position = peaks[l].position) => k = l

-----------------------------------------------------------------------------
(***************************************************************************)
(*        COORDINATE CODEC (clickhouse/xpos.rs): calls of the codec        *)
(***************************************************************************)

\* compute_xpos(contig, position) is called
ComputeXpos ==
    /\ UNCHANGED <<serverVars, foldVars, apiVars, workerVars>>
    /\ xop = "none"
    /\ \E contig \in ContigInputs, position \in PositionInputs :
          /\ xarg' = [NoCall EXCEPT !.contig = contig, !.position = position]
          /\ xret' = Ok(compute_xpos(contig, position))
    /\ xop' = "compute_xpos"

\* Locus::from_xpos is called on the xpos compute_xpos returned
FromXpos ==
    /\ UNCHANGED <<serverVars, foldVars, apiVars, workerVars>>
    /\ xop = "compute_xpos"
    /\ xret.value[1] >= 1
    /\ \E name \in ContigNames(xret.value[1]) :
          xret' = Ok([contig |-> name, position |-> PositionOf(xret.value)])
    /\ xarg' = [xarg EXCEPT !.xpos = xret.value]
    /\ xop' = "from_xpos"

\* parse_variant_id(variant_id) is called
ParseVariantId ==
    /\ UNCHANGED <<serverVars, foldVars, apiVars, workerVars>>
    /\ xop = "none"
    /\ \E text \in VariantIdInputs :
          /\ xarg' = [NoCall EXCEPT !.text = text]
          /\ xret' = parse_variant_id(text)
    /\ xop' = "parse_variant_id"

\* parse_interval_to_xpos(interval) is called
ParseInterval ==
    /\ UNCHANGED <<serverVars, foldVars, apiVars, workerVars>>
    /\ xop = "none"
    /\ \E text \in IntervalInputs :
          /\ xarg' = [NoCall EXCEPT !.text = text]
          /\ xret' = parse_interval_to_xpos(text)
    /\ xop' = "parse_interval_to_xpos"

\* get_associations_by_interval: the range scan decides on a row whose xpos
\* is that of (contig, position)
ScanRow ==
    /\ UNCHANGED <<serverVars, foldVars, apiVars, workerVars>>
    /\ xop = "parse_interval_to_xpos"
    /\ xret.tag = "Ok"
    /\ \E contig \in RowContigs, position \in PositionInputs :
          /\ xarg' = [xarg EXCEPT !.contig = contig, !.position = position,
                                  !.xpos = compute_xpos(contig, position)]
          /\ xret' = Ok([xpos_start |-> xret.value[1],
                         xpos_end |-> xret.value[2],
                         selected |-> InRange(compute_xpos(contig, position),
                                              xret.value[1], xret.value[2])])
    /\ xop' = "scan"

\* The caller has taken the result
XposReturn ==
    /\ UNCHANGED <<serverVars, foldVars, apiVars, workerVars>>
    /\ xop # "none"
    /\ xop' = "none"
    /\ xarg' = NoCall
    /\ xret' = Ok(Zero)

XposNext ==
    \/ ComputeXpos \/ FromXpos \/ ParseVariantId \/ ParseInterval
    \/ ScanRow \/ XposReturn

XposInit ==
    /\ XposIdle /\ FoldIdle /\ ApiIdle /\ WorkerIdle
    /\ IngestIdle /\ DiscoveryIdle /\ CacheIdle /\ OverviewIdle

SpecXpos == XposInit /\ [][XposNext]_vars

\* The contig with one leading chr removed
WithoutChr(contig) ==
    IF StartsWith(contig, <<"c", "h", "r">>)
    THEN SubSeq(contig, 4, Len(contig))
    ELSE contig

\* The number of a contig name of the reference (1..22, X, Y, M, MT in any
\* case), 0 for every other text
KnownContigNumber(name) ==
    LET upper == ToUppercase(name)
    IN  IF \E n \in ContigNumbers : upper = DecimalString(n)
        THEN CHOOSE n \in ContigNumbers : upper = DecimalString(n)
        ELSE IF upper = <<"X">> THEN 23
        ELSE IF upper = <<"Y">> THEN 24
        ELSE IF upper \in {<<"M">>, <<"M", "T">>} THEN 25
        ELSE 0

\* C15: compute_xpos returns contig_num * 1_000_000_000 + position when the
\* contig, after removing an optional chr prefix and upper-casing, is one of
\* 1..22, X (23), Y (24), M or MT (25), and returns 0 for every other contig
\* string.
C15_ZeroForUnknownContigs ==
    xop = "compute_xpos" =>
        LET n == KnownContigNumber(WithoutChr(xarg.contig))
        IN  xret.value = IF n = 0 THEN Zero
                         ELSE <<n + xarg.position[1], xarg.position[2]>>

\* M and MT name the same contig
SameContig(a, b) == a = b \/ {a, b} \subseteq {<<"M">>, <<"M", "T">>}

\* C13 (as stated): for every valid contig (1..22, X, Y, M/MT, with or
\* without the chr prefix) and every position the encoder accepts, decoding
\* compute_xpos(contig, pos) returns the contig without chr prefix and the
\* same position.
C13_RoundTripEveryPosition ==
    (xop = "from_xpos" /\ xarg.contig \in ValidContigs) =>
        /\ xret.value.contig = WithoutChr(xarg.contig)
        /\ xret.value.position = xarg.position

\* C13 (amended): for every valid contig and every position below
\* 1_000_000_000, decoding compute_xpos(contig, pos) returns the same
\* position and the contig without chr prefix, M and MT counting as the same
\* contig.
C13_RoundTripBelowContigStride ==
    (xop = "from_xpos" /\ xarg.contig \in ValidContigs
        /\ xarg.position[1] = 0) =>
        /\ SameContig(xret.value.contig, WithoutChr(xarg.contig))
        /\ xret.value.position = xarg.position

\* chrX:12345 has been encoded and decoded to (X, 12345)
C13_Witness ==
    /\ xop = "from_xpos"
    /\ xarg.contig = <<"c", "h", "r", "X">>
    /\ xarg.position = <<0, 12345>>
    /\ xarg.xpos = <<23, 12345>>
    /\ xret.value = [contig |-> <<"X">>, position |-> <<0, 12345>>]

\* The contig, start and end of an interval text contig:start-end
IntervalContig(text) == Split(text, ":")[1]
IntervalStart(text) == ParseU32(Split(Split(text, ":")[2], "-")[1]).value
IntervalEnd(text) == ParseU32(Split(Split(text, ":")[2], "-")[2]).value

\* The row lies on the contig of the interval, between start and end
InInterval(text, contig, position) ==
    /\ KnownContigNumber(WithoutChr(contig))
          = KnownContigNumber(WithoutChr(IntervalContig(text)))
    /\ LessEq(IntervalStart(text), position)
    /\ LessEq(position, IntervalEnd(text))

\* C14 (as stated): for every accepted interval contig:start-end with
\* start <= end and every variant (contig', pos) with a valid contig and an
\* unsigned 32-bit position, xpos_start <= xpos <= xpos_end holds if and only
\* if contig' is the interval's contig and start <= pos <= end.
C14_RangeScanExactEveryPosition ==
    (xop = "scan"
        /\ LessEq(IntervalStart(xarg.text), IntervalEnd(xarg.text))) =>
        (xret.value.selected
            <=> InInterval(xarg.text, xarg.contig, xarg.position))

\* C14 (amended): the same for intervals with start <= end below
\* 1_000_000_000 and variants with a position below 1_000_000_000.
C14_RangeScanExactBelowContigStride ==
    (xop = "scan"
        /\ LessEq(IntervalStart(xarg.text), IntervalEnd(xarg.text))
        /\ IntervalEnd(xarg.text)[1] = 0
        /\ xarg.position[1] = 0) =>
        (xret.value.selected
            <=> InInterval(xarg.text, xarg.contig, xarg.position))

\* The scan of chr1:100-12345 has selected the row 1:12345
C14_Witness ==
    /\ xop = "scan"
    /\ xarg.text = <<"c", "h", "r", "1", ":", "1", "0", "0", "-",
                     "1", "2", "3", "4", "5">>
    /\ xarg.contig = <<"1">>
    /\ xarg.position = <<0, 12345>>
    /\ xret.value.selected

\* contig_num * 1_000_000_000 + position for a contig of the reference
EncodeKnown(contig, position) ==
    <<KnownContigNumber(WithoutChr(contig)) + position[1], position[2]>>

\* C16: parse_variant_id succeeds only on strings that split on '-' into
\* exactly four parts with a numeric position and a known contig, returning
\* (encode(contig, pos), ref, alt) with ref and alt verbatim; every other
\* input returns InvalidInterval, and a successful result never carries
\* xpos 0.
C16_VariantIdKnownContigOnly ==
    xop = "parse_variant_id" =>
        LET parts == Split(xarg.text, "-")
        IN  IF /\ Len(parts) = 4
               /\ ParseU32(parts[2]).tag = "Ok"
               /\ KnownContigNumber(WithoutChr(parts[1])) # 0
            THEN /\ xret = Ok(<<EncodeKnown(parts[1], ParseU32(parts[2]).value),
                                parts[3], parts[4]>>)
                 /\ xret.value[1] # Zero
            ELSE xret = Err("InvalidInterval")

\* C17: parse_interval_to_xpos accepts exactly the strings contig:start-end
\* with numeric start and end and a known contig, returning
\* (encode(contig, start), encode(contig, end)) without reordering; malformed
\* syntax or an unknown contig (a negative or out-of-range number included)
\* returns InvalidInterval.
C17_IntervalKnownContigOnly ==
    xop = "parse_interval_to_xpos" =>
        LET parts == Split(xarg.text, ":")
            range_parts == Split(parts[2], "-")
        IN  IF /\ Len(parts) = 2
               /\ Len(range_parts) = 2
               /\ ParseU32(range_parts[1]).tag = "Ok"
               /\ ParseU32(range_parts[2]).tag = "Ok"
               /\ KnownContigNumber(WithoutChr(parts[1])) # 0
            THEN xret = Ok(<<EncodeKnown(parts[1], IntervalStart(xarg.text)),
                             EncodeKnown(parts[1], IntervalEnd(xarg.text))>>)
            ELSE xret = Err("InvalidInterval")

-----------------------------------------------------------------------------
(***************************************************************************)
(*                 HANDLERS AND RESPONSES: the requests                    *)
(***************************************************************************)

\* GET /api/variants/associations/variant/:variant_id
GetAssociationByVariant ==
    /\ UNCHANGED <<serverVars, foldVars, xposVars, workerVars>>
    /\ handler = "none"
    /\ \E variant_id \in VariantIdInputs :
          \E fetched_row \in FetchOptional(variant_id) :
             /\ hinput' = [id |-> variant_id, fetched |-> fetched_row]
             /\ hresult' =
                   Some(get_association_by_variant(variant_id, fetched_row))
    /\ handler' = "get_association_by_variant"
    /\ UNCHANGED response

\* GET /api/phenotype/:analysis_id/loci/:locus_id/plot
GetLocusPlot ==
    /\ UNCHANGED <<serverVars, foldVars, xposVars, workerVars>>
    /\ handler = "none"
    /\ \E locus_id \in LocusIds :
          \E rows \in FetchAll(locus_id) :
             /\ hinput' = [id |-> locus_id, fetched |-> rows]
             /\ hresult' = Some(get_locus_plot(locus_id, rows))
    /\ handler' = "get_locus_plot"
    /\ UNCHANGED response

\* A gene-model row of the store is shaped into the API object
GetGeneModel ==
    /\ UNCHANGED <<serverVars, foldVars, xposVars, workerVars>>
    /\ handler = "none"
    /\ \E row \in GeneModelRows :
          /\ hinput' = [id |-> "gene", fetched |-> Some(row)]
          /\ hresult' = Some(Ok(to_api_model(row)))
    /\ handler' = "to_api_model"
    /\ UNCHANGED response

\* Some other handler fails with an error of any kind
HandlerFails ==
    /\ UNCHANGED <<serverVars, foldVars, xposVars, workerVars>>
    /\ handler = "none"
    /\ \E kind \in ErrorKinds, message \in Messages :
          hresult' = Some(Fail(AppError(kind, message)))
    /\ hinput' = NoRequest
    /\ handler' = "other"
    /\ UNCHANGED response

\* IntoResponse for Result<Json<T>, AppError>
IntoResponse ==
    /\ UNCHANGED <<serverVars, foldVars, xposVars, workerVars>>
    /\ handler # "none"
    /\ response = None
    /\ response' = Some(IF hresult.inv.tag = "Err"
                        THEN into_response(hresult.inv.error)
                        ELSE JsonResponse(hresult.inv.value))
    /\ UNCHANGED <<handler, hinput, hresult>>

\* The response has been sent
ApiReturn ==
    /\ UNCHANGED <<serverVars, foldVars, xposVars, workerVars>>
    /\ response # None
    /\ handler' = "none"
    /\ hinput' = NoRequest
    /\ hresult' = None
    /\ response' = None

ApiNext ==
    \/ GetAssociationByVariant \/ GetLocusPlot \/ GetGeneModel
    \/ HandlerFails \/ IntoResponse \/ ApiReturn

ApiInit ==
    /\ ApiIdle /\ FoldIdle /\ XposIdle /\ WorkerIdle
    /\ IngestIdle /\ DiscoveryIdle /\ CacheIdle /\ OverviewIdle

SpecApi == ApiInit /\ [][ApiNext]_vars

\* The store has answered the query without a matching row
NoMatchingRow == hinput.fetched = None \/ hinput.fetched = Ok(<<>>)

\* The handler has failed with an error of the kind
FailedWith(kind) ==
    hresult.inv.tag = "Err" /\ hresult.inv.error.kind = kind

\* C18: the single-variant association lookup and the single-locus plot
\* fetch return NotFound when the store has no matching row and
\* DataTransform when the store query fails; neither returns a success
\* response with an empty result.
C18_NotFoundWhenNoRow ==
    (handler \in {"get_association_by_variant", "get_locus_plot"}
        /\ ~FailedWith("InvalidInterval")) =>
        /\ hinput.fetched = QueryFailed => FailedWith("DataTransformError")
        /\ NoMatchingRow => FailedWith("NotFound")
        /\ ~(handler = "get_association_by_variant"
                /\ hresult.inv.tag = "Ok" /\ hresult.inv.value.data = <<>>)

\* C19: every error kind maps to exactly one HTTP status with a body
\* {error: message}: InvalidInterval to 400, NotFound to 404, every other
\* kind to 500; no error is reported with status 200.
C19_StatusByErrorKind ==
    (response # None /\ hresult.inv.tag = "Err") =>
        LET error == hresult.inv.error
        IN  /\ response.inv.status =
                  (IF error.kind = "InvalidInterval" THEN 400
                   ELSE IF error.kind = "NotFound" THEN 404
                   ELSE 500)
            /\ response.inv.status # 200
            /\ DOMAIN response.inv.body = {"error"}
            /\ response.inv.body.error = to_string(error)

\* The plot of a locus the store does not hold has been answered with 404
C19_Witness ==
    /\ handler = "get_locus_plot"
    /\ hinput.fetched = Ok(<<>>)
    /\ response # None
    /\ response.inv.status = 404
    /\ response.inv.body = [error |-> "Not found: Locus locus_1 not found"]

\* C20: the nested gnomad_constraint object is present if and only if at
\* least one of the row's flattened gnomAD source columns is non-null, and
\* the nested mane_select_transcript object is present if and only if at
\* least one of the row's flattened MANE source columns is non-null.
C20_NestedPresentIffAnyColumn ==
    handler = "to_api_model" =>
        LET row == hinput.fetched.inv
            model == hresult.inv.value
        IN  /\ model.gnomad_constraint # None
                  <=> \E c \in GnomadColumns : row.gnomad[c] # None
            /\ model.mane_select_transcript # None
                  <=> \E c \in ManeColumns : row.mane[c] # None

-----------------------------------------------------------------------------
(***************************************************************************)
(*        ASSET DISCOVERY WORKER: discover_for_ancestry, step by step      *)
(***************************************************************************)

\* Step 1: list_with_delimiter on the ancestry prefix is called
ListAncestry ==
    /\ UNCHANGED <<serverVars, foldVars, xposVars, apiVars>>
    /\ wpc = "idle"
    /\ Len(wruns) < MaxWorkerRuns
    /\ wpc' = "listing"
    /\ UNCHANGED <<gcs, filtered_phenotypes, in_flight, results, listed,
                   wfailed, wreturn, wruns>>

\* Step 1 fails: map_err(..)? returns the error
ListAncestryFails ==
    /\ UNCHANGED <<serverVars, foldVars, xposVars, apiVars>>
    /\ wpc = "listing"
    /\ wpc' = "done"
    /\ wfailed' = TRUE
    /\ wreturn' = Some(Err("DataTransformError"))
    /\ UNCHANGED <<gcs, filtered_phenotypes, in_flight, results, listed,
                   wruns>>

\* Step 1 returns the phenotype directories; they are filtered
ListAncestryReturns ==
    /\ UNCHANGED <<serverVars, foldVars, xposVars, apiVars>>
    /\ wpc = "listing"
    /\ filtered_phenotypes' = FilterPhenotypes(gcs, get_valid_phenotypes)
    /\ wpc' = "streaming"
    /\ UNCHANGED <<gcs, in_flight, results, listed, wfailed, wreturn, wruns>>

\* Step 2: buffer_unordered polls the stream; the listing of the next
\* phenotype starts
StartListing ==
    /\ UNCHANGED <<serverVars, foldVars, xposVars, apiVars>>
    /\ wpc = "streaming"
    /\ filtered_phenotypes # <<>>
    /\ CanPoll(Cardinality(in_flight))
    /\ in_flight' = in_flight \cup {Head(filtered_phenotypes)}
    /\ filtered_phenotypes' = Tail(filtered_phenotypes)
    /\ listed' = [listed EXCEPT ![Head(filtered_phenotypes).phenotype_name]
                                    = @ + 1]
    /\ UNCHANGED <<gcs, wpc, results, wfailed, wreturn, wruns>>

\* Step 2: a listing in flight completes, with the .ht directories or
\* with an error (then the phenotype yields no assets)
FinishListing ==
    /\ UNCHANGED <<serverVars, foldVars, xposVars, apiVars>>
    /\ wpc = "streaming"
    /\ \E item \in in_flight, ok \in BOOLEAN :
          /\ in_flight' = in_flight \ {item}
          /\ results' = Append(results,
                               IF ok
                               THEN AssetsOf(item, HtDirs(item.phenotype_name))
                               ELSE <<>>)
          /\ wfailed' = (wfailed \/ ~ok)
    /\ UNCHANGED <<gcs, wpc, filtered_phenotypes, listed, wreturn, wruns>>

\* The stream is exhausted: the results are flattened and returned
WorkerReturns ==
    /\ UNCHANGED <<serverVars, foldVars, xposVars, apiVars>>
    /\ wpc = "streaming"
    /\ filtered_phenotypes = <<>>
    /\ in_flight = {}
    /\ wreturn' = Some(Ok(Flatten(results)))
    /\ wpc' = "done"
    /\ UNCHANGED <<gcs, filtered_phenotypes, in_flight, results, listed,
                   wfailed, wruns>>

\* The run is over; the worker of the next discovery starts afresh
NextWorker ==
    /\ UNCHANGED <<serverVars, foldVars, xposVars, apiVars>>
    /\ wpc = "done"
    /\ wruns' = Append(wruns,
                       [assets |-> IF wreturn.inv.tag = "Ok"
                                   THEN {wreturn.inv.value[i] :
                                            i \in 1..Len(wreturn.inv.value)}
                                   ELSE {},
                        failed |-> wfailed])
    /\ wpc' = "idle"
    /\ results' = <<>>
    /\ listed' = NoListed
    /\ wfailed' = FALSE
    /\ wreturn' = None
    /\ UNCHANGED <<gcs, filtered_phenotypes, in_flight>>

WorkerNext ==
    \/ ListAncestry \/ ListAncestryFails \/ ListAncestryReturns
    \/ StartListing \/ FinishListing \/ WorkerReturns \/ NextWorker

WorkerInit ==
    /\ WorkerStart /\ FoldIdle /\ XposIdle /\ ApiIdle
    /\ IngestIdle /\ DiscoveryIdle /\ CacheIdle /\ OverviewIdle

SpecWorker == WorkerInit /\ [][WorkerNext]_vars

\* The assets the current run returned
ReturnedAssets ==
    {wreturn.inv.value[i] : i \in 1..Len(wreturn.inv.value)}

C22_DiscoveryIdempotent ==
    (wpc = "done" /\ ~wfailed) =>
        \A i \in 1..Len(wruns) :
            ~wruns[i].failed => ReturnedAssets = wruns[i].assets

\* Two runs without failures have completed their listings in different
\* orders and returned assets of two phenotypes
C22_Witness ==
    /\ wpc = "done"
    /\ ~wfailed
    /\ Len(wruns) = 1
    /\ ~wruns[1].failed
    /\ Len(results) = 2
    /\ results[1] # <<>>
    /\ results[2] # <<>>
    /\ results[1][1].analysis_id # results[2][1].analysis_id
    /\ Len(gcs) = 2
    /\ results[1][1].uri[3] = gcs[2]
    /\ results[2][1].uri[3] = gcs[1]

\* The phenotype survives the filter of the worker
Survives(phenotype_name) ==
    /\ phenotype_name # <<>>
    /\ \/ phenotype_name \in get_valid_phenotypes
       \/ assets_normalize_analysis_id(phenotype_name) \in get_valid_phenotypes

\* C23: at most MAX_CONCURRENT_REQUESTS phenotype listings are in flight,
\* each phenotype that survives the filter is listed exactly once, and the
\* ancestry listing completes before any phenotype listing starts.
C23_BoundedListings ==
    /\ Cardinality(in_flight) <= MAX_CONCURRENT_REQUESTS
    /\ wpc \in {"idle", "listing"} =>
          in_flight = {} /\ listed = NoListed
    /\ \A name \in DirNames : listed[name] <= 1
    /\ (wpc = "done" /\ wreturn.inv.tag = "Ok") =>
          \A name \in DirNames :
             listed[name] =
                IF (\E i \in 1..Len(gcs) : gcs[i] = name) /\ Survives(name)
                THEN 1 ELSE 0

\* The limit of listings in flight is reached while a phenotype waits
C23_Witness ==
    /\ wpc = "streaming"
    /\ Cardinality(in_flight) = MAX_CONCURRENT_REQUESTS
    /\ filtered_phenotypes # <<>>

(***************************************************************************)
(*      UNIFIED OVERVIEW: burden results of the returned loci              *)
(***************************************************************************)

\* C25: in the returned unified_loci no gene's burden_results holds two
\* entries with the same annotation, whatever burden rows were fetched
\* (several rows of one gene_id and annotation included) and whichever branch
\* of the burden loop placed the gene.
C25_NoDuplicateAnnotations ==
    opc = "done" =>
       \A i \in 1..Len(unified_loci) :
          \A g \in 1..Len(unified_loci[i].genes) :
             LET burden_results == unified_loci[i].genes[g].burden_results
             IN  \A k, l \in 1..Len(burden_results) :
                    burden_results[k].annotation = burden_results[l].annotation
                       => k = l

(***************************************************************************)
(*      INGESTION CLI: the effect of prepare_target_table                  *)
(***************************************************************************)

\* prepare_target_table is the only step of the current load that has run
PrepareTargetJustRan ==
    /\ Loading
    /\ Len(stepTrace) = 1
    /\ stepTrace[1][1] = "prepare_target"

\* C26: prepare_target_table changes the target table only.  Whatever its
\* outcome, the staging table and every other table are as they were when the
\* load began, and under Create and Append the rows of the target are as they
\* were; when it returns Ok the target exists, and under Replace it is empty.
C26_PrepareTargetFrame ==
    PrepareTargetJustRan =>
       /\ \A t \in TableNames \ {cur.name} : store[t] = preStore[t]
       /\ args.init_strategy \in {"Create", "Append"} =>
             store[cur.name].rows = preStore[cur.name].rows
       /\ stepTrace[1][2] =>
             /\ store[cur.name].exists
             /\ args.init_strategy = "Replace" =>
                   store[cur.name].rows = EmptyBag

\* Reached: an Append load of a target that holds rows, with a staging table
\* left by an earlier run; prepare_target_table returned Ok
C26_Witness ==
    /\ PrepareTargetJustRan
    /\ stepTrace[1][2]
    /\ args.init_strategy = "Append"
    /\ preStore[cur.name].rows # EmptyBag
    /\ store[cur.name] = preStore[cur.name]
    /\ store[cur.staging_name].exists
    /\ store[cur.staging_name].rows # EmptyBag

(***************************************************************************)
(*      The asset cache: population, overlapping discoveries, refresh      *)
(***************************************************************************)

\* C27: once the cache holds an inventory it is never None again, and under
\* any interleaving of requests a handler that is past its discovery step
\* finds an inventory: the unwrap of get_assets and get_assets_summary never
\* panics.
C27_CacheNeverEmptiedNoPanic ==
    /\ [][cache # None => cache' # None]_vars
    /\ [](\A r \in Requests :
             /\ req[r].pc \in {"loaded", "using"} => cache # None
             /\ req[r].result # "panic")

\* Reached: the cache started as None, two discoveries were started, and a
\* get_assets or get_assets_summary request has unwrapped the cache and holds
\* the inventory of a discovery
C27_Witness ==
    /\ nextRun = 2
    /\ \E r \in Requests :
          /\ req[r].kind \in {"get_assets", "get_assets_summary"}
          /\ req[r].pc = "using"
          /\ req[r].seen.tag = "Some"
          /\ req[r].seen.inv.run >= 1

\* The request is past its discovery step
PastDiscovery(r) == req[r].pc \in {"loaded", "using", "done"}

\* C28: the check, the discovery and the write are separate steps with no
\* guard held from one to the next.  A request whose check finds the cache
\* populated with refresh unset goes straight to its read: it starts no
\* discovery and never writes.  A request whose check finds the cache empty,
\* or that asks for a refresh, goes on to a discovery of its own whatever
\* the other requests are doing, and writes the result of that discovery;
\* the cache changes only by such writes, so it holds what the last writer
\* stored.
C28_CheckDiscoverWriteSeparate ==
    [][/\ \A r \in Requests :
             /\ (req[r].pc = "check" /\ req'[r].pc # "check") =>
                   /\ r \notin readers'
                   /\ req'[r].pc = IF cache # None /\ ~req[r].refresh
                                   THEN "loaded" ELSE "new_client"
             /\ PastDiscovery(r) =>
                   /\ req'[r].pc \in {"loaded", "using", "done"}
                   /\ r \notin writers'
             /\ (req[r].pc = "new_client" /\ req'[r].pc = "discovering") =>
                   /\ r \notin readers \cup writers
                   /\ req'[r].discovered.run = nextRun + 1
                   /\ \A o \in Requests \ {r} :
                         req[o].discovered.run # nextRun + 1
             /\ (req[r].pc = "discovering" /\ req'[r].pc # "discovering") =>
                   /\ r \notin readers' \cup writers'
                   /\ req'[r].pc = "write"
                   /\ cache' = cache
             /\ (req[r].pc = "replacing" /\ req'[r].pc # "replacing") =>
                   cache' = Some(req[r].discovered)
       /\ cache' # cache =>
             \E r \in Requests : req[r].pc \in {"write", "replacing"}]_vars

\* Reached: two requests overlapped and each ran its own discovery; the
\* discovery that started second wrote first, and the cache holds the
\* inventory of the discovery that started first
C28_Witness ==
    /\ nextRun = 2
    /\ cache.tag = "Some"
    /\ cache.inv.run = 1
    /\ \E inv \in finished : inv.run = 2
    /\ \A r \in Requests : PastDiscovery(r)

\* The server was started with --assets-file: the cache is populated from the
\* start, so every discovery of the behaviour is a forced refresh
Preloaded == FileInventory \in finished

\* No request is between the start of a discovery and the end of its write
NoDiscoveryPending ==
    \A r \in Requests : req[r].pc \notin {"discovering", "write", "replacing"}

\* C29: a forced refresh always replaces the cache with the result of its
\* discovery.  A request with refresh set goes on to construct the client
\* whatever the cache holds; when the construction fails the handler returns
\* the error and the cache is unchanged; otherwise discover_all returns an
\* inventory, be it empty, and that inventory is written: once a refresh has
\* started a discovery and no discovery is pending, the populated cache holds
\* the inventory of a refresh and no longer the snapshot it started with,
\* and it still holds that snapshot only if no client was constructed.
C29_RefreshAlwaysReplaces ==
    /\ [][\A r \in Requests :
             /\ (req[r].pc = "check" /\ req[r].refresh
                   /\ req'[r].pc # "check") => req'[r].pc = "new_client"
             /\ (req[r].pc = "new_client" /\ req'[r].pc # "new_client") =>
                   \/ req'[r].pc = "discovering"
                   \/ /\ req'[r].result = "err"
                      /\ cache' = cache]_vars
    /\ [](Preloaded =>
            /\ nextRun = 0 => cache = Some(FileInventory)
            /\ (nextRun >= 1 /\ NoDiscoveryPending) =>
                  /\ cache.tag = "Some"
                  /\ cache.inv \in finished
                  /\ cache.inv.run >= 1)

\* Reached: the cache was populated, a refresh found every ancestry listing
\* failing, and the cache now holds the empty inventory of that refresh;
\* another refresh could not construct the client and returned the error
C29_Witness ==
    /\ Preloaded
    /\ FileInventory.assets # <<>>
    /\ nextRun = 1
    /\ cache = Some([run |-> 1, assets |-> <<>>])
    /\ \E r \in Requests : req[r].result = "err"

(***************************************************************************)
(*      INGESTION CLI: what a failed load leaves behind                    *)
(***************************************************************************)

\* The step at which the current load failed ("none" while none has failed)
FailedStep ==
    IF stepTrace # <<>> /\ ~Last(stepTrace)[2] THEN Last(stepTrace)[1]
    ELSE "none"

\* The target as a successful prepare_target_table left it
PreparedTarget ==
    PrepareTargetTable(preStore, cur, args.init_strategy, "ok")[cur.name]

\* The target after the transform's INSERT .. SELECT of the staged source
TransformedTarget ==
    Table(PreparedTarget.rows (+) Filtered(SourceRows(args.input)))

\* b1 is a sub-bag of b2
SubBagOf(b1, b2) ==
    \A r \in DOMAIN b1 : r \in DOMAIN b2 /\ b1[r] <= b2[r]

\* C30: a failed load is neither rolled back nor cleaned up.  A failing step
\* is the last step of its load: no cleanup follows.  After a failure at
\* stage the target is as prepare_target_table left it (under Replace:
\* existing and empty, its earlier rows gone) and staging holds what the
\* decoder wrote before failing; after a failure at transform staging holds
\* the staged source and the target is as prepare_target_table or the
\* executed INSERT left it; after a failure at verify staging holds the
\* staged source and the target the transformed rows.  Under `all` the
\* following loads run with the failed load's target left in that state.
C30_FailedLoadLeftAsIs ==
    /\ \A i \in 1..Len(stepTrace) :
          ~stepTrace[i][2] => (i = Len(stepTrace) /\ ipc = "load_err")
    /\ FailedStep = "stage" =>
          /\ store[cur.name] = PreparedTarget
          /\ args.init_strategy = "Replace" => store[cur.name] = Table(EmptyBag)
          /\ SubBagOf(store[cur.staging_name].rows, SourceRows(args.input))
          /\ store[cur.staging_name].rows # EmptyBag
                => store[cur.staging_name].exists
    /\ FailedStep = "transform" =>
          /\ store[cur.staging_name] = Table(SourceRows(args.input))
          /\ store[cur.name] \in {PreparedTarget, TransformedTarget}
    /\ FailedStep = "verify" =>
          /\ store[cur.staging_name] = Table(SourceRows(args.input))
          /\ store[cur.name] = TransformedTarget
    /\ FailedStep \in {"stage", "transform", "verify"} =>
          \A t \in TableNames \ {cur.name, cur.staging_name} :
             store[t] = preStore[t]
    /\ (args.command = "All" /\ prevLoad.table # "none" /\ ~prevLoad.ok) =>
          store[prevLoad.table] = prevLoad.target

\* Reached: under `all` with Replace the load of exome_annotations, whose
\* target held rows, failed at stage after the decoder had written a part of
\* the source; the target is left empty and the staging table in place while
\* the load of genome_annotations is under way
C30_Witness ==
    /\ args.command = "All"
    /\ args.init_strategy = "Replace"
    /\ attempted = <<<<"exome_annotations", FALSE>>>>
    /\ prevLoad.before.rows # EmptyBag
    /\ store["exome_annotations"] = Table(EmptyBag)
    /\ args.input = "default"
    /\ store["staging_exome_raw"] = Table(BagOf({"a"}))
    /\ cur.name = "genome_annotations"
    /\ ipc = "stage"

=============================================================================
